------------------------------ MODULE MCMaster ------------------------------
(* Instance of Master on a canvas two wide and two high: three colours for  *)
(* one place, one pixel in the next column whose index would be that of the *)
(* same place, and one in the next row.                                     *)
EXTENDS Master

MCPixel == {[x |-> 0, y |-> 1, color |-> 0],
            [x |-> 0, y |-> 1, color |-> 1],
            [x |-> 0, y |-> 1, color |-> 2],
            [x |-> 2, y |-> 0, color |-> 3],
            [x |-> 1, y |-> 2, color |-> 3]}
=============================================================================

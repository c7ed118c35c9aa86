------------------------------ MODULE MC_Hart ------------------------------
(* A 32-byte address space.  The program is at 0; the values a program      *)
(* writes make 16 a handler base, direct or with the timer's vector at 12;  *)
(* the other halfwords, the external line's vector among them, cannot be    *)
(* fetched.  Of the data addresses 4 is good and 5 faults.                  *)
EXTENDS Hart

MCFetchable == {0, 2, 12, 16, 18}
MCWords == {3, 16, 17}
MCOffsets == {-2}
AllLines == SUBSET {"MTIP", "MEIP"}

=============================================================================

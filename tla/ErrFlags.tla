------------------------------ MODULE ErrFlags ------------------------------
(***************************************************************************)
(* The error flags of SecurityChecks.h and the three operators of          *)
(* SecurityChecks.cc that combine them.  An `int` of flag bits is the set   *)
(* of the flags whose bit is 1: & is \cap, | is \cup.  The reserved bits    *)
(* and Completed_Flag are never set by the code and are left out.           *)
(***************************************************************************)

Flag == {"Must_Return_Err", "May_Return_Err", "Must_Handle_Err", "May_Handle_Err"}

ReturnMask == {"Must_Return_Err", "May_Return_Err"}
HandleMask == {"Must_Handle_Err", "May_Handle_Err"}

Must(flag) == "Must_Return_Err" \in flag
May(flag)  == "May_Return_Err" \in flag
Handled(flag) == "Must_Handle_Err" \in flag

Returns(flag) == flag \cap ReturnMask
Handles(flag) == flag \cap HandleMask

(* Mutant: the new flag is xor-ed in.                                       *)
UpdateReturnFlag_Xor(errFlag, newFlag) ==
  Handles(errFlag) \cup (Returns(errFlag) \ newFlag) \cup (Returns(newFlag) \ errFlag)

(* The half of newFlag under the mask replaces that half of errFlag, unless *)
(* newFlag says nothing there.                                              *)
UpdateReturnFlag(errFlag, newFlag) ==
  IF Returns(newFlag) = {} THEN errFlag ELSE Handles(errFlag) \cup Returns(newFlag)

(* "Assume handle flag cannot be updated from Must to May".                 *)
UpdateHandleFlag(errFlag, newFlag) ==
  IF Handled(errFlag) \/ Handles(newFlag) = {}
  THEN errFlag
  ELSE Returns(errFlag) \cup Handles(newFlag)

(* Mutant of MergeReturn: the flag of the last edge.                          *)
MergeReturn_Last(errFlag, newFlag) == Returns(newFlag)

MergeReturn(errFlag, newFlag) ==
  IF Must(errFlag) /\ Must(newFlag)            THEN {"Must_Return_Err"}
  ELSE IF May(errFlag) \/ May(newFlag)         THEN {"May_Return_Err"}
  ELSE IF Returns(errFlag) = {}                THEN Returns(newFlag)
  ELSE Returns(errFlag)

(* The second case yields May_Return_Err, as the code does: the bit of the  *)
(* other half.  No code sets May_Handle_Err, so the case is never taken.    *)
MergeHandle(errFlag, newFlag) ==
  IF Handled(errFlag) /\ Handled(newFlag)      THEN {"Must_Handle_Err"}
  ELSE IF "May_Handle_Err" \in errFlag \cup newFlag THEN {"May_Return_Err"}
  ELSE IF Handles(errFlag) = {}                THEN Handles(newFlag)
  ELSE Handles(errFlag)

MergeFlag(errFlag, newFlag) == MergeReturn(errFlag, newFlag) \cup MergeHandle(errFlag, newFlag)
=============================================================================

------------------------------ MODULE MCLibrary ------------------------------
(***************************************************************************)
(* The parts of the library that share no state: in one behaviour one of   *)
(* them is used, for as long as its caller likes, and the others are left  *)
(* alone.                                                                  *)
(***************************************************************************)
EXTENDS Timespec, MCText, Term, Hash, Variant, Exec, Firmware, OpenTimeout

VARIABLE used   \* the part this behaviour is about

Parts == {"time", "text", "terminal", "hash", "variant", "exec", "firmware", "open"}

libraryVars == <<used, vars, textVars, termVars, hashVars, variantVars, execVars, firmwareVars,
                 openVars>>

LibraryInit ==
  /\ used \in Parts
  /\ Init /\ TextInit /\ TermInit /\ HashInit /\ VariantInit /\ ExecInit /\ FirmwareInit
  /\ OpenInit

(* The variables of all parts but one.                                       *)
AllBut(part) ==
  /\ UNCHANGED used
  /\ part # "time"     => UNCHANGED vars
  /\ part # "text"     => UNCHANGED textVars
  /\ part # "terminal" => UNCHANGED termVars
  /\ part # "hash"     => UNCHANGED hashVars
  /\ part # "variant"  => UNCHANGED variantVars
  /\ part # "exec"     => UNCHANGED execVars
  /\ part # "firmware" => UNCHANGED firmwareVars
  /\ part # "open"     => UNCHANGED openVars

LibraryNext ==
  \/ used = "time" /\ Next /\ AllBut("time")
  \/ used = "text" /\ TextNext /\ AllBut("text")
  \/ used = "terminal" /\ TermNext /\ AllBut("terminal")
  \/ used = "hash" /\ HashNext /\ AllBut("hash")
  \/ used = "variant" /\ VariantNext /\ AllBut("variant")
  \/ used = "exec" /\ ExecNext /\ AllBut("exec")
  \/ used = "firmware" /\ FirmwareNext /\ AllBut("firmware")
  \/ used = "open" /\ OpenNext /\ AllBut("open")

LibrarySpec == LibraryInit /\ [][LibraryNext]_libraryVars

-----------------------------------------------------------------------------
(* A second of six nanoseconds, and operands up to three seconds away from   *)
(* zero whose nanoseconds reach two seconds either way.                      *)
MCOperands == [tv_sec : -2..2, tv_nsec : {-13, -12, -7, -6, -5, -1, 0, 1, 5, 6, 7, 12}]

(* Integers of three bits, and numbers that fit or do not.                   *)
MCNumbers == {-4, 0, 3, 5}
=============================================================================

------------------------------ MODULE Firmware ------------------------------
(***************************************************************************)
(* The firmware loader, programs/do_firmware.c: header lines, a checksum   *)
(* child that is fed the rest of the file, and, if the checksum is the one *)
(* in the header, an extraction child that is fed the same.                *)
(***************************************************************************)
EXTENDS Integers, Sequences

CONSTANT Chunks   \* the payload, in reads of the copy loop

ASSUME FirmwareAssumption == Chunks \in Nat

VARIABLES at,         \* where the program is
          stage,      \* the child it is about
          image,      \* the file: the bad header line, if any, and the checksum
          offset,     \* of the stream, in the payload
          fed,        \* what each child got on its standard input
          process,    \* the children
          failed,     \* steps that failed
          status      \* of the program
firmwareVars == <<at, stage, image, offset, fed, process, failed, status>>

Lines == {"version", "architecture", "name", "checksum"}
After(line) == CASE line = "version" -> "architecture" [] line = "architecture" -> "name"
                 [] line = "name" -> "checksum" [] line = "checksum" -> "start"
Images == [bad : Lines \cup {"none"}, csum : {"right", "wrong"}]
Payload == [n \in 1..Chunks |-> n]
Stages == {"check", "extract"}

FirmwareInit ==
  /\ image = [bad |-> "none", csum |-> "right"] /\ at = "exited" /\ stage = "check"
  /\ offset = 0 /\ failed = {} /\ status = "not_run"
  /\ fed = [s \in Stages |-> <<>>] /\ process = [s \in Stages |-> "none"]

(* The program is run, on any file.                                          *)
Run ==
  /\ at = "exited" /\ at' = "version" /\ stage' = "check" /\ image' \in Images
  /\ offset' = 0 /\ failed' = {} /\ status' = "running"
  /\ fed' = [s \in Stages |-> <<>>] /\ process' = [s \in Stages |-> "none"]

FailIn(step) ==
  at' = "exited" /\ status' = "error" /\ failed' = failed \cup {<<step, stage>>}
Fail == FailIn(at)

-----------------------------------------------------------------------------
(* main(): the lines of the header.                                          *)
ReadLine ==
  /\ at \in Lines
  /\ IF image.bad = at THEN Fail ELSE at' = After(at) /\ UNCHANGED <<failed, status>>
  /\ UNCHANGED <<stage, image, offset, fed, process>>

LocalArchitectureUnknown ==
  /\ at = "architecture" /\ Fail
  /\ UNCHANGED <<stage, image, offset, fed, process>>

-----------------------------------------------------------------------------
(* checksum() and extract(): nl_popen3(), nl_stream_to_fd(), and the wait.   *)
Start ==
  /\ at = "start" /\ at' = "copy"
  /\ process' = [process EXCEPT ![stage] = "running"]
  /\ UNCHANGED <<stage, image, offset, fed, failed, status>>

StartFails ==   \* or ftello() failed
  /\ at = "start" /\ Fail
  /\ UNCHANGED <<stage, image, offset, fed, process>>

Copy ==
  /\ at = "copy" /\ offset < Chunks
  /\ fed' = [fed EXCEPT ![stage] = Append(@, Payload[offset + 1])]
  /\ offset' = offset + 1
  /\ UNCHANGED <<at, stage, image, process, failed, status>>

CopyEnds ==   \* the stream is at its end: the child's input is closed
  /\ at = "copy" /\ offset = Chunks
  /\ at' = "wait"
  /\ UNCHANGED <<stage, image, offset, fed, process, failed, status>>

StreamFails ==   \* a read or a write: the child is killed, and not waited for
  /\ at = "copy" /\ Fail
  /\ process' = [process EXCEPT ![stage] = "killed"]
  /\ UNCHANGED <<stage, image, offset, fed>>

Waited ==
  /\ at = "wait"
  /\ process' = [process EXCEPT ![stage] = "reaped"]
  /\ IF stage = "check" THEN at' = "read_result" /\ UNCHANGED status
                    ELSE at' = "exited" /\ status' = "done"
  /\ UNCHANGED <<stage, image, offset, fed, failed>>

ReturnsError ==   \* the child exited with an error
  /\ at = "wait" /\ FailIn("exit")
  /\ process' = [process EXCEPT ![stage] = "reaped"]
  /\ UNCHANGED <<stage, image, offset, fed>>

WaitError ==   \* waiting itself failed
  /\ at = "wait" /\ Fail
  /\ UNCHANGED <<stage, image, offset, fed, process>>

-----------------------------------------------------------------------------
(* The end of checksum(): its result, and the way back to the payload, which *)
(* may fail without consequence.                                             *)
ReadResult ==
  /\ at = "read_result" /\ at' = "rewind"
  /\ UNCHANGED <<stage, image, offset, fed, process, failed, status>>

ReadResultFails ==
  /\ at = "read_result" /\ Fail
  /\ UNCHANGED <<stage, image, offset, fed, process>>

Rewind ==
  /\ at = "rewind" /\ at' = "compare" /\ offset' = 0
  /\ UNCHANGED <<stage, image, fed, process, failed, status>>

RewindFails ==
  /\ at = "rewind" /\ at' = "compare" /\ failed' = failed \cup {<<at, stage>>}
  /\ UNCHANGED <<stage, image, offset, fed, process, status>>

(* csum_verify is the digest of what the child was fed; csum_in the digest   *)
(* of the payload, if the header is right.                                   *)
ResultRead == fed["check"] = Payload
SameChecksum == image.csum = "right" /\ fed["check"] = Payload

Compare ==
  /\ at = "compare"
  /\ IF SameChecksum THEN at' = "chdir" /\ UNCHANGED <<failed, status>> ELSE Fail
  /\ UNCHANGED <<stage, image, offset, fed, process>>

ChangeDirectory ==
  /\ at = "chdir"
  /\ \/ at' = "start" /\ stage' = "extract" /\ UNCHANGED <<failed, status>>
     \/ Fail /\ UNCHANGED stage
  /\ UNCHANGED <<image, offset, fed, process>>

FirmwareNext ==
  \/ Run \/ ReadLine \/ LocalArchitectureUnknown
  \/ Start \/ StartFails \/ Copy \/ CopyEnds \/ StreamFails
  \/ Waited \/ ReturnsError \/ WaitError
  \/ ReadResult \/ ReadResultFails \/ Rewind \/ RewindFails
  \/ Compare \/ ChangeDirectory

FirmwareSpec == FirmwareInit /\ [][FirmwareNext]_firmwareVars

-----------------------------------------------------------------------------
(* Properties.                                                               *)

(* The extraction child is given nothing but the beginning of a payload whose *)
(* checksum was found right, under a header that was read whole; when every   *)
(* step succeeded it was given all of it; and a child is left unreaped only   *)
(* by a failed copy or wait (do_firmware.c:114, do_firmware.c:232).           *)
ExtractsVerified ==
  /\ fed["extract"] # <<>> =>
       /\ image = [bad |-> "none", csum |-> "right"] /\ fed["check"] = Payload
       /\ fed["extract"] = SubSeq(Payload, 1, offset)
  /\ status = "done" /\ failed = {} => fed["extract"] = Payload
  /\ at = "exited" => \A s \in Stages :
       process[s] \in {"running", "killed"} => {<<"copy", s>>, <<"wait", s>>} \cap failed # {}

(* The loader reports success only when the whole payload was extracted: the  *)
(* stream "is rewound to the position it had" before, or checksum() fails.    *)
(* False when the rewind fails, which is only logged (do_firmware.c:85).      *)
SuccessExtracts == status = "done" => fed["extract"] = Payload
=============================================================================

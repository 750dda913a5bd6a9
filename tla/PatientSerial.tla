--------------------------- MODULE PatientSerial ---------------------------
(***************************************************************************)
(* One device whose user saves one form at a time and deletes nobody is a  *)
(* serial registry: although the number is read before one await and       *)
(* written after another, over a cache, a queue and a lossy connection,    *)
(* what the device reads changes as if every save were one step.           *)
(***************************************************************************)
EXTENDS PatientProvider

VARIABLE snapshot  \* history: what the device read after the last registration

\* What the one device reads is the registry.
Reads == View(CHOOSE c \in Clients : TRUE)

SerialInit == Init /\ snapshot = {}

SerialNext ==
  /\ Next
  /\ snapshot' = IF clock' # clock THEN Reads' ELSE snapshot

SerialSpec == SerialInit /\ [][SerialNext]_<<vars, snapshot>>

Serial == INSTANCE SerialRegistry
            WITH records <- Reads, registrations <- clock, Counts <- Nat

(***************************************************************************)
(* The code implements the serial registry: a registration or an edit      *)
(* takes effect once, when set() is called, with a number that is still    *)
(* the next one and a date that is not older than the last registration;   *)
(* restarts, reloads, answers of the server, confirmations and lost        *)
(* acknowledgements change nothing that the user can read.                 *)
(***************************************************************************)
SavesAreSerial == Serial!Spec
=============================================================================

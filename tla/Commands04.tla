----------------------------- MODULE Commands04 -----------------------------
(* The command protocol of gameplay 0.4 (gameplay04/commands.ts): a keep      *)
(* numbers the commands it accepts and keeps a bounded set of receipts, so    *)
(* that a retried command is answered and never executed again.               *)
(*                                                                            *)
(* A command is a record with at least a sequence, a requestKey and an        *)
(* expectedRevision.  The code compares the request key and the fingerprint   *)
(* of all the other fields: here a receipt holds the command itself.          *)
EXTENDS Integers, FiniteSets

CONSTANTS MaxReceipts,   \* GAMEPLAY04_MAX_RECEIPTS, 128
          U64Max         \* GAMEPLAY04_U64_MAX

ASSUME CommandAssumption ==
    /\ MaxReceipts \in Nat \ {0}
    /\ U64Max \in Nat

-----------------------------------------------------------------------------
Retained(receipts, command) ==
    {r \in receipts : r.command.sequence = command.sequence}

Spent(keep, command) == command.sequence <= keep.lastAccepted

InTurn(keep, command) ==
    /\ keep.lastAccepted < U64Max
    /\ command.sequence = keep.lastAccepted + 1

(* Mutant: the revision the client saw is not compared. *)
Unquoted(keep, command) == TRUE

Quoted(keep, command) == command.expectedRevision = keep.revision

(* What preflightSequence04 answers before anything is read or changed. *)
Preflight(keep, receipts, command) ==
    IF \E r \in Retained(receipts, command) : r.command = command THEN "replay"
    ELSE IF Retained(receipts, command) # {} THEN "RECEIPT_CONFLICT"
    ELSE IF Spent(keep, command) THEN "RECEIPT_EXPIRED"
    ELSE IF ~InTurn(keep, command) THEN "SEQUENCE_INVALID"
    ELSE IF ~Quoted(keep, command) THEN "INPUT_INVALID"
    ELSE "fresh"

(* validateReceipts04, run before every use of the receipts. *)
ReceiptsValid(keep, receipts) ==
    /\ Cardinality(receipts) <= MaxReceipts
    /\ \A r \in receipts : /\ r.command.sequence \in 1..keep.lastAccepted
                           /\ r.revision \in 1..keep.revision
    /\ \A r, s \in receipts : r.command.sequence = s.command.sequence => r = s

Oldest(receipts) ==
    {r \in receipts : \A s \in receipts : r.command.sequence <= s.command.sequence}

(* The receipt of an accepted command is inserted, and the oldest one is      *)
(* deleted when there is one too many.                                        *)
WithReceipt(receipts, command, revision) ==
    LET all == receipts \cup {[command |-> command, revision |-> revision]}
    IN  IF Cardinality(all) = MaxReceipts + 1 THEN all \ Oldest(all) ELSE all
=============================================================================

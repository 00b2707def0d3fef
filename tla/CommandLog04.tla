---------------------------- MODULE CommandLog04 ----------------------------
(* What a keep promises about commands, whatever they do: the accepted        *)
(* commands form one log, numbered from 1 without gaps; each was accepted at  *)
(* the revision its author had seen and produced the next one; between two    *)
(* commands the keep may only advance its revision by settling what is due.   *)
EXTENDS Integers

CONSTANT Command

VARIABLES revision,       \* of the keep, 0 before it exists
          lastAccepted,   \* the sequence of the last accepted command
          log             \* every accepted command with its resulting revision

logVars == <<revision, lastAccepted, log>>

Init ==
    /\ revision = 0
    /\ lastAccepted = 0
    /\ log = {}

Accept(command) ==
    /\ command.sequence = lastAccepted + 1
    /\ command.expectedRevision = revision
    /\ revision' = revision + 1
    /\ lastAccepted' = command.sequence
    /\ log' = log \cup {[command |-> command, revision |-> revision']}

Settle ==
    /\ revision > 0
    /\ revision' = revision + 1
    /\ UNCHANGED <<lastAccepted, log>>

Next == Settle \/ \E command \in Command : Accept(command)

Spec == Init /\ [][Next]_logVars

-----------------------------------------------------------------------------
LogType ==
    /\ revision \in Nat
    /\ lastAccepted \in Nat
    /\ log \subseteq [command : Command, revision : Nat]

(* No two accepted commands share a sequence: nothing is executed twice, and  *)
(* of two commands that compete for a sequence only one is ever executed      *)
(* (preflightSequence04).                                                     *)
AtMostOnce ==
    \A e, f \in log : e.command.sequence = f.command.sequence => e = f

(* Commands take effect in the order of their sequences, without a gap, and   *)
(* each was accepted at exactly the revision that precedes its own result.             *)
InOrder ==
    /\ {e.command.sequence : e \in log} = 1..lastAccepted
    /\ \A e \in log : /\ e.revision \in 1..revision
                      /\ e.revision = e.command.expectedRevision + 1
    /\ \A e, f \in log :
          e.command.sequence < f.command.sequence => e.revision < f.revision
=============================================================================

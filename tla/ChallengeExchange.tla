------------------------- MODULE ChallengeExchange --------------------------
(* Sign-in at the auth bridge: the exchange of one challenge for a session    *)
(* (the /v2/farcaster/exchange handler of app.ts) against the Durable Object  *)
(* that keeps the challenge (challengeStore.ts).                              *)
(*                                                                            *)
(* The same proof may be posted any number of times, from tabs or by retries, *)
(* and each post is an attempt with its own handler.  A handler awaits the    *)
(* challenge, the verifier, the realm's database, the signer and the session  *)
(* family one after the other, and each of them may fail; the Durable Object  *)
(* runs one request at a time.                                                *)
EXTENDS Integers, FiniteSets

CONSTANTS
    Attempt,     \* the posts of one proof
    ExpiresAt,   \* expiresAt of the challenge
    MaxTime      \* BOUND on the clock

ASSUME ExchangeAssumption == ExpiresAt \in Nat \ {0} /\ MaxTime \in Nat

VARIABLES
    now,      \* the clock
    stored,   \* whether the Durable Object has the challenge
    lost,     \* whether a failed call to the Durable Object lost the challenge
    step,     \* where the handler of an attempt is
    trouble,  \* what failed an attempt that had claimed the challenge
    family    \* the session family of an attempt

vars == <<now, stored, lost, step, trouble, family>>

-----------------------------------------------------------------------------
(* How an attempt ends: "refused" (401) before it had the challenge,          *)
(* "unavailable" (503, try again), "spent" (401) with the challenge used up,  *)
(* or "succeeded".                                                            *)
UsedUp == {"spent", "succeeded"}

(* The steps of a handler that has claimed the challenge. *)
Claimed == {"verify", "resolve", "sign", "finish-signing", "create", "confirm", "restore", "put"}

Step == {"idle", "get", "consume", "refused", "unavailable"} \cup Claimed \cup UsedUp

(* The verifier found no proof; or nothing is wrong with the proof, but the   *)
(* verifier, the database, the signer or the session store did not answer.    *)
Trouble == {"none", "proof", "verifier", "admission", "signing", "session"}

Expired == now >= ExpiresAt

Usable == stored /\ ~Expired

Go(a, next) ==
    /\ step' = [step EXCEPT ![a] = next]
    /\ UNCHANGED trouble

(* The proof is refused for good. *)
RefuseProof(a) ==
    /\ step' = [step EXCEPT ![a] = "spent"]
    /\ trouble' = [trouble EXCEPT ![a] = "proof"]

(* A failure after which the proof may be tried again. *)
GiveBack(a, what) ==
    /\ step' = [step EXCEPT ![a] = "restore"]
    /\ trouble' = [trouble EXCEPT ![a] = what]

Post(a) ==
    /\ step[a] = "idle"
    /\ Go(a, "get")
    /\ UNCHANGED <<now, stored, lost, family>>

(* The challenge is read, and the proof compared with it (verifyLocalChallenge, *)
(* the browser binding, verifySignedMessage); nothing is claimed yet.  An     *)
(* expired challenge is deleted when it is read.                              *)
GetChallenge(a) ==
    /\ step[a] = "get"
    /\ \/ Usable /\ UNCHANGED stored /\ Go(a, "consume")
       \/ stored' \in {stored, Usable} /\ (Go(a, "refused") \/ Go(a, "unavailable"))
    /\ UNCHANGED <<now, lost, family>>

(* Mutant: the Durable Object only looks whether the challenge is there. *)
KeptByConsume == Usable

LeftByConsume == FALSE

(* The claim.  The call may fail, not carried out, or carried out with its    *)
(* answer, the challenge, lost.                                               *)
Consume(a) ==
    /\ step[a] = "consume"
    /\ \/ /\ stored' = LeftByConsume
          /\ UNCHANGED lost
          /\ IF Usable THEN Go(a, "verify") ELSE Go(a, "refused")
       \/ /\ stored' = LeftByConsume
          /\ lost' = (lost \/ Usable)
          /\ Go(a, "unavailable")
       \/ /\ UNCHANGED <<stored, lost>>
          /\ Go(a, "unavailable")
    /\ UNCHANGED <<now, family>>

(* The verifier: a proof, no proof, or no answer in time. *)
Verify(a) ==
    /\ step[a] = "verify"
    /\ Go(a, "resolve") \/ RefuseProof(a) \/ GiveBack(a, "verifier")
    /\ UNCHANGED <<now, stored, lost, family>>

Resolve(a) ==
    /\ step[a] = "resolve"
    /\ Go(a, "sign") \/ GiveBack(a, "admission")
    /\ UNCHANGED <<now, stored, lost, family>>

(* signingTime *)
Sign(a) ==
    /\ step[a] = "sign"
    /\ IF Expired THEN Go(a, "spent") ELSE Go(a, "finish-signing")
    /\ UNCHANGED <<now, stored, lost, family>>

(* completionTime *)
FinishSigning(a) ==
    /\ step[a] = "finish-signing"
    /\ \/ GiveBack(a, "signing")
       \/ IF Expired THEN Go(a, "spent") ELSE Go(a, "create")
    /\ UNCHANGED <<now, stored, lost, family>>

(* The family is stored, or the call fails, having stored it or not. *)
CreateFamily(a) ==
    /\ step[a] = "create"
    /\ \/ Go(a, "confirm") /\ family' = [family EXCEPT ![a] = "live"]
       \/ GiveBack(a, "session") /\ family' \in {family, [family EXCEPT ![a] = "unknown"]}
    /\ UNCHANGED <<now, stored, lost>>

(* Mutant: the time is not read again. *)
InTimeAnyway == TRUE

InTime == ~Expired

(* storedAt: too late, the family is revoked as well as can be. *)
Confirm(a) ==
    /\ step[a] = "confirm"
    /\ IF InTime
       THEN Go(a, "succeeded") /\ UNCHANGED family
       ELSE Go(a, "spent") /\ \E f \in {"revoked", "unknown"} : family' = [family EXCEPT ![a] = f]
    /\ UNCHANGED <<now, stored, lost>>

(* Mutant: the challenge is only put back if it was the database that failed. *)
RestoreForAdmission(a) ==
    /\ step[a] = "restore"
    /\ IF Expired \/ trouble[a] # "admission" THEN Go(a, "unavailable") ELSE Go(a, "put")
    /\ UNCHANGED <<now, stored, lost, family>>

(* restoreRetryableChallenge: the time, then the call.  The player is told to *)
(* try again, whatever becomes of the challenge.                              *)
Restore(a) ==
    /\ step[a] = "restore"
    /\ IF Expired THEN Go(a, "unavailable") ELSE Go(a, "put")
    /\ UNCHANGED <<now, stored, lost, family>>

PutChallenge(a) ==
    /\ step[a] = "put"
    /\ \/ ~Expired /\ stored' = TRUE /\ UNCHANGED lost
       \/ UNCHANGED stored /\ lost' = TRUE
    /\ Go(a, "unavailable")
    /\ UNCHANGED <<now, family>>

Alarm ==
    /\ stored
    /\ Expired
    /\ stored' = FALSE
    /\ UNCHANGED <<now, lost, step, trouble, family>>

Tick ==
    /\ now < MaxTime
    /\ now' = now + 1
    /\ UNCHANGED <<stored, lost, step, trouble, family>>

-----------------------------------------------------------------------------
Init ==
    /\ now = 0
    /\ stored = TRUE
    /\ lost = FALSE
    /\ step = [a \in Attempt |-> "idle"]
    /\ trouble = [a \in Attempt |-> "none"]
    /\ family = [a \in Attempt |-> "none"]

Next ==
    \/ \E a \in Attempt :
          \/ Post(a) \/ GetChallenge(a) \/ Consume(a) \/ Verify(a) \/ Resolve(a)
          \/ Sign(a) \/ FinishSigning(a) \/ CreateFamily(a) \/ Confirm(a)
          \/ Restore(a) \/ PutChallenge(a)
    \/ Alarm
    \/ Tick

Spec == Init /\ [][Next]_vars

-----------------------------------------------------------------------------
TypeOK ==
    /\ now \in 0..MaxTime
    /\ stored \in BOOLEAN
    /\ lost \in BOOLEAN
    /\ step \in [Attempt -> Step]
    /\ trouble \in [Attempt -> Trouble]
    /\ family \in [Attempt -> {"none", "live", "unknown", "revoked"}]

HasClaim(a) == step[a] \in Claimed \cup UsedUp

(* The challenge is in one place: in its Durable Object, with the only        *)
(* attempt that is working on it or has used it up, or lost.  So one proof    *)
(* signs in once, whatever fails and whoever retries (consume and             *)
(* restoreRetryableChallenge).                                                *)
OneClaim ==
    /\ \A a, b \in Attempt : HasClaim(a) /\ HasClaim(b) => a = b
    /\ stored \/ lost => \A a \in Attempt : ~HasClaim(a)
    /\ ~(stored /\ lost)

AccountsFor(a) == step[a] \in Claimed \cup {"succeeded"} \/ trouble[a] = "proof"

(* A failure upstream never costs the player the challenge: while it is live  *)
(* it is stored, unless a handler still works on it, it signed the player in, *)
(* or the verifier refused the proof.  An attempt that ended with "try again" *)
(* does not account for it.  The one exception is the documented one: a call  *)
(* to the challenge's own object failed with the challenge out of it          *)
(* (consume; "restoration is best effort" in restoreRetryableChallenge).      *)
NotForgotten == ~Expired /\ ~stored => lost \/ \E a \in Attempt : AccountsFor(a)

(* A session that works belongs to an attempt that succeeded before the       *)
(* challenge expired; of any other family nothing is known only because a     *)
(* call to store or revoke it failed (storedAt).                              *)
SessionsConfirmed ==
    [][\A a \in Attempt : step'[a] # step[a] =>
          /\ step'[a] = "succeeded" => ~Expired /\ family'[a] = "live"
          /\ family'[a] = "live" => step'[a] \in {"confirm", "succeeded"}]_vars
=============================================================================

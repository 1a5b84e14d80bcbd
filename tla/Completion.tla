----------------------------- MODULE Completion -----------------------------
(***************************************************************************)
(* The Completer of completion/completion.go: a flag set without the lock  *)
(* and a channel closed and renewed under it.  Channels have identities;   *)
(* one that nothing refers to any more may be made again.                  *)
(***************************************************************************)
EXTENDS Naturals

CONSTANTS
  Goroutines,   \* callers of Complete, Reset and Wait
  Channels,     \* channels; more than there are goroutines
  NoChannel

ASSUME CompletionAssumption == NoChannel \notin Channels

VARIABLES
  complete,   \* c.complete
  done,       \* c.done
  closed,     \* the channels that are closed
  at,         \* where each goroutine is
  waitsOn     \* the channel a Wait received from Done, NoChannel for none

completerVars == <<complete, done, closed, at, waitsOn>>

CompleterTypeOK ==
  /\ complete \in BOOLEAN
  /\ done \in Channels
  /\ closed \subseteq Channels
  /\ at \in [Goroutines -> {"idle", "close", "renew", "wait"}]
  /\ waitsOn \in [Goroutines -> Channels \union {NoChannel}]
  /\ \A g \in Goroutines : at[g] = "wait" <=> waitsOn[g] # NoChannel

NewCompleter ==
  /\ complete = FALSE
  /\ done \in Channels
  /\ closed = {}
  /\ at = [g \in Goroutines |-> "idle"]
  /\ waitsOn = [g \in Goroutines |-> NoChannel]

\* Only a Reset holds c.mu over more than one step.
MuFree == \A g \in Goroutines : at[g] # "renew"

Move(g, from, to) == at[g] = from /\ at' = [at EXCEPT ![g] = to]

-----------------------------------------------------------------------------
\* Mutated form: a Complete that finds the lock taken leaves the closing to
\* whoever holds it.
CompleteFlagTryLock(g) ==
  /\ ~complete
  /\ complete' = TRUE
  /\ Move(g, "idle", IF MuFree THEN "close" ELSE "idle")
  /\ UNCHANGED <<done, closed, waitsOn>>

\* Complete: the compare-and-swap of the flag, without the lock.
CompleteFlag(g) ==
  /\ ~complete
  /\ complete' = TRUE
  /\ Move(g, "idle", "close")
  /\ UNCHANGED <<done, closed, waitsOn>>

\* ... and the closing of what is c.done by then, under the lock.
CompleteClose(g) ==
  /\ MuFree
  /\ Move(g, "close", "idle")
  /\ closed' = closed \union {done}
  /\ UNCHANGED <<complete, done, waitsOn>>

\* Reset takes the lock and swaps the flag; without a flag it returns.
ResetSwap(g) ==
  /\ MuFree /\ complete
  /\ complete' = FALSE
  /\ Move(g, "idle", "renew")
  /\ UNCHANGED <<done, closed, waitsOn>>

Unused == Channels \ ({done} \union {waitsOn[g] : g \in Goroutines})

\* Mutated form: the old channel is replaced without being closed.
ResetRenewOnly(g) ==
  /\ Move(g, "renew", "idle")
  /\ \E ch \in Unused : done' = ch /\ closed' = closed \ {ch}
  /\ UNCHANGED <<complete, waitsOn>>

ResetRenew(g) ==
  /\ Move(g, "renew", "idle")
  /\ \E ch \in Unused : done' = ch /\ closed' = (closed \union {done}) \ {ch}
  /\ UNCHANGED <<complete, waitsOn>>

\* Wait takes the channel under the lock and receives from it without.
Wait(g) ==
  /\ MuFree
  /\ Move(g, "idle", "wait")
  /\ waitsOn' = [waitsOn EXCEPT ![g] = done]
  /\ UNCHANGED <<complete, done, closed>>

WaitEnds(g) ==
  /\ waitsOn[g] \in closed
  /\ Move(g, "wait", "idle")
  /\ waitsOn' = [waitsOn EXCEPT ![g] = NoChannel]
  /\ UNCHANGED <<complete, done, closed>>

CompleterNext ==
  \E g \in Goroutines :
    \/ CompleteFlag(g) \/ CompleteClose(g)
    \/ ResetSwap(g) \/ ResetRenew(g)
    \/ Wait(g) \/ WaitEnds(g)

(* Goroutines that can run do; one that waits for the mutex gets it, since  *)
(* Go's mutexes hand over to a waiter that starves.  Nobody has to call.    *)
CompleterFairness ==
  \A g \in Goroutines :
    /\ SF_completerVars(CompleteClose(g))
    /\ WF_completerVars(ResetRenew(g))
    /\ WF_completerVars(WaitEnds(g))

CompleterSpec == NewCompleter /\ [][CompleterNext]_completerVars /\ CompleterFairness

-----------------------------------------------------------------------------
(* Nobody is left waiting on a channel that nothing will close: a channel   *)
(* that was replaced is closed, and while the flag is set the present one   *)
(* is closed or a Complete is on its way to it, whatever Resets come        *)
(* between the two halves of Complete (completion.go:27-36, 47-60).         *)
WaitersAreNotStranded ==
  \A g \in Goroutines : at[g] = "wait" =>
    \/ waitsOn[g] \in closed
    \/ waitsOn[g] = done /\ (complete => \E h \in Goroutines : at[h] = "close")

(* "Wait blocks until Complete is called" (completion.go:78), and not       *)
(* longer: once it is, a Wait returns.                                      *)
WaitReturns ==
  \A g \in Goroutines : (at[g] = "wait" /\ complete) ~> at[g] # "wait"

(* "IsComplete returns true if Complete has been called and no Reset has    *)
(* occurred since" (completion.go:72) and Done's channel is closed by that  *)
(* Complete (completion.go:63): between calls, the flag and the channel     *)
(* agree.                                                                   *)
FlagAgreesWithChannel ==
  (\A g \in Goroutines : at[g] \in {"idle", "wait"}) => (complete <=> done \in closed)
=============================================================================

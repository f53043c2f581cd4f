--------------------------- MODULE LocalLockTable ---------------------------
(***************************************************************************)
(* One slot of include/LocalLockTable.h, through which the coroutines of a *)
(* compute node combine writes and delegate reads of the same key.  A slot *)
(* has one ticket queue for reads and one for writes.  The client at the   *)
(* head of a queue either goes to the leaf itself (the winner) or is       *)
(* handed over the winner's result; a time window, opened by a winner that *)
(* leaves, tells the clients that were already queued from later ones.     *)
(* A client whose key is not the slot's key goes to the leaf directly.     *)
(*                                                                         *)
(* All keys of the model hash to the same slot and live in the same leaf.  *)
(* The code for reads and for writes is the same up to the side it works   *)
(* on, so one action serves both.                                          *)
(***************************************************************************)
EXTENDS Naturals, Sequences, FiniteSets

CONSTANTS
  Clients,     \* the coroutines of one compute node
  SlotKeys,    \* keys that hash to the slot
  NoKey,       \* a null unique_read_key / unique_write_key
  TicketMod,   \* tickets and windows are uint8_t: 256 in the code
  Programs     \* the programs the clients may be given

Sides == {"r", "w"}
Other(s) == IF s = "r" THEN "w" ELSE "r"

\* A value names the key it was written for, so that a mix-up shows.
SlotVals == SlotKeys \X Nat
InitVal(k) == <<k, 0>>

SlotOps == [side : Sides, k : SlotKeys, v : SlotVals]

ASSUME SlotConstants ==
  /\ TicketMod \in Nat /\ TicketMod > 1
  /\ NoKey \notin SlotKeys
  /\ Programs \subseteq [Clients -> Seq(SlotOps)]

VARIABLES
  current, ticket, handover, window,  \* per side, the fields of LocalLockNode
  unique,      \* per side: unique_read_key, unique_write_key
  start,       \* window_start
  wcbuf,       \* wc_buffer
  result,      \* ret_value
  store,       \* the records in the leaf
  todo,        \* per client: operations still to be issued
  cl           \* per client: its locals

slotVars == <<current, ticket, handover, window, unique, start, wcbuf, result,
              store, todo, cl>>

SlotPCs == {"idle", "claim", "deposit", "ticket", "turn", "work", "write",
            "publish", "load", "open", "own", "other", "next", "drain",
            "check", "clear", "advance"}

\* role: what acquire_local_*_lock returned; t, seen: its ticket and the
\* queue's tail as read by the release; v: the value it writes or has read;
\* ov: a ghost, set when a client that went to the leaf for the same key
\* starts its release while this operation is in progress.
SlotLocals == [pc : SlotPCs, side : Sides, k : SlotKeys \cup {NoKey},
               v : SlotVals \cup {<<>>}, t : Nat, seen : Nat,
               role : {"none", "winner", "handed", "direct"}, ov : BOOLEAN]

IdleSlot == [pc |-> "idle", side |-> "r", k |-> NoKey, v |-> <<>>, t |-> 0,
             seen |-> 0, role |-> "none", ov |-> FALSE]

\* The fields of a LocalLockNode and its clients' locals keep their types, the
\* tickets through every wrap of their width.
SlotTypeOK ==
  /\ current \in [Sides -> 0..(TicketMod - 1)]
  /\ ticket \in [Sides -> 0..(TicketMod - 1)]
  /\ handover \in [Sides -> BOOLEAN]
  /\ window \in [Sides -> 0..(TicketMod - 1)]
  /\ unique \in [Sides -> SlotKeys \cup {NoKey}]
  /\ start \in BOOLEAN
  /\ wcbuf \in SlotVals \cup {<<>>} /\ result \in SlotVals \cup {<<>>}
  /\ store \in [SlotKeys -> SlotVals]
  /\ todo \in [Clients -> Seq(SlotOps)]
  /\ cl \in [Clients -> SlotLocals]

\* Client c's locals after a step; Go only moves its program counter.
Turns(c, l) == cl' = [cl EXCEPT ![c] = l]
Go(c, p) == Turns(c, [cl[c] EXCEPT !.pc = p])
Side(c) == cl[c].side

-----------------------------------------------------------------------------
(* acquire_local_read_lock, acquire_local_write_lock *)

Issue(c) ==
  /\ cl[c].pc = "idle" /\ todo[c] # <<>>
  /\ todo' = [todo EXCEPT ![c] = Tail(@)]
  /\ LET o == Head(todo[c]) IN
       Turns(c, [IdleSlot EXCEPT !.pc = "claim", !.side = o.side, !.k = o.k,
                                 !.v = IF o.side = "w" THEN o.v ELSE <<>>])
  /\ UNCHANGED <<current, ticket, handover, window, unique, start, wcbuf,
                 result, store>>

\* The compare-and-swap on unique_*_key.  Another key's operation does not
\* use the slot at all.
ClaimKey(c) ==
  /\ cl[c].pc = "claim"
  /\ IF unique[Side(c)] \in {NoKey, cl[c].k}
       THEN /\ unique' = [unique EXCEPT ![Side(c)] = cl[c].k]
            /\ Go(c, IF Side(c) = "w" THEN "deposit" ELSE "ticket")
       ELSE /\ Turns(c, [cl[c] EXCEPT !.pc = "work", !.role = "direct"])
            /\ UNCHANGED unique
  /\ UNCHANGED <<current, ticket, handover, window, start, wcbuf, result,
                 store, todo>>

\* Local overwrite: the last value deposited is the one to be written.
Deposit(c) ==
  /\ cl[c].pc = "deposit"
  /\ wcbuf' = cl[c].v
  /\ Go(c, "ticket")
  /\ UNCHANGED <<current, ticket, handover, window, unique, start, result,
                 store, todo>>

\* Mutant of TakeTicket: a ticket that is not a uint8_t.
TakeTicketUnwrapped(c) ==
  /\ cl[c].pc = "ticket"
  /\ Turns(c, [cl[c] EXCEPT !.pc = "turn", !.t = ticket[Side(c)]])
  /\ ticket' = [ticket EXCEPT ![Side(c)] = @ + 1]
  /\ UNCHANGED <<current, handover, window, unique, start, wcbuf, result,
                 store, todo>>

TakeTicket(c) ==
  /\ cl[c].pc = "ticket"
  /\ Turns(c, [cl[c] EXCEPT !.pc = "turn", !.t = ticket[Side(c)]])
  /\ ticket' = [ticket EXCEPT ![Side(c)] = (@ + 1) % TicketMod]
  /\ UNCHANGED <<current, handover, window, unique, start, wcbuf, result,
                 store, todo>>

\* A client takes its turn as a winner, or with the predecessor's result (h).
Proceed(c, h) ==
  /\ handover' = [handover EXCEPT ![Side(c)] = h]
  /\ Turns(c, [cl[c] EXCEPT !.role = IF h THEN "handed" ELSE "winner",
                            !.pc = IF ~h THEN "work"
                                   ELSE IF Side(c) = "r" THEN "publish"
                                   ELSE "load"])
  /\ UNCHANGED <<current, ticket, window, unique, start, wcbuf, result, store,
                 todo>>

\* Mutants of Granted: not waiting for the turn, not looking at the window.
GrantedEarly(c) ==
  /\ cl[c].pc = "turn"
  /\ unique[Side(c)] = cl[c].k
  /\ Proceed(c, handover[Side(c)] /\ window[Side(c)] # 0)
GrantedLate(c) ==
  /\ cl[c].pc = "turn" /\ cl[c].t = current[Side(c)]
  /\ unique[Side(c)] = cl[c].k
  /\ Proceed(c, handover[Side(c)])

\* Its turn: a client outside the window is a winner again, and a client whose
\* key the slot no longer carries passes the queue on and goes direct.
Granted(c) ==
  /\ cl[c].pc = "turn" /\ cl[c].t = current[Side(c)]
  /\ unique[Side(c)] = cl[c].k
  /\ Proceed(c, handover[Side(c)] /\ window[Side(c)] # 0)

\* Mutant of TurnConflict: the queue is not passed on.
TurnConflictHolds(c) ==
  /\ cl[c].pc = "turn" /\ cl[c].t = current[Side(c)]
  /\ unique[Side(c)] # cl[c].k
  /\ Turns(c, [cl[c] EXCEPT !.role = "direct", !.pc = "work"])
  /\ UNCHANGED <<current, ticket, handover, window, unique, start, wcbuf,
                 result, store, todo>>

TurnConflict(c) ==
  /\ cl[c].pc = "turn" /\ cl[c].t = current[Side(c)]
  /\ unique[Side(c)] # cl[c].k
  /\ Turns(c, [cl[c] EXCEPT !.role = "direct", !.pc = "drain"])
  /\ UNCHANGED <<current, ticket, handover, window, unique, start, wcbuf,
                 result, store, todo>>

-----------------------------------------------------------------------------
(* The leaf, as insert, update and search use it under the slot *)

\* The operation is over.
Done(c) == Turns(c, IdleSlot)

\* get_combining_value, called with the leaf locked; the write that follows
\* releases the leaf.
GetCombiningValue(c) ==
  /\ cl[c].pc = "work" /\ Side(c) = "w"
  /\ \A d \in Clients : cl[d].pc # "write"
  /\ Turns(c, [cl[c] EXCEPT !.pc = "write",
                            !.v = IF unique["w"] = cl[c].k THEN wcbuf ELSE @])
  /\ UNCHANGED <<current, ticket, handover, window, unique, start, wcbuf,
                 result, store, todo>>

WriteLeaf(c) ==
  /\ cl[c].pc = "write"
  /\ store' = [store EXCEPT ![cl[c].k] = cl[c].v]
  /\ IF cl[c].role = "direct" THEN Done(c) ELSE Go(c, "load")
  /\ UNCHANGED <<current, ticket, handover, window, unique, start, wcbuf,
                 result, todo>>

ReadLeaf(c) ==
  /\ cl[c].pc = "work" /\ Side(c) = "r"
  /\ Turns(c, [cl[c] EXCEPT !.v = store[cl[c].k], !.pc = "publish"])
  /\ UNCHANGED <<current, ticket, handover, window, unique, start, wcbuf,
                 result, store, todo>>

-----------------------------------------------------------------------------
(* release_local_read_lock, release_local_write_lock *)

\* Mutant of Publish: a read that did not use the slot publishes, too.
PublishDirect(c) ==
  /\ cl[c].pc = "publish"
  /\ CASE cl[c].role = "winner" -> result' = cl[c].v /\ Go(c, "load")
       [] cl[c].role = "handed" ->
            /\ Turns(c, [cl[c] EXCEPT !.v = result, !.pc = "load"])
            /\ UNCHANGED result
       [] OTHER -> Done(c) /\ result' = cl[c].v
  /\ UNCHANGED <<current, ticket, handover, window, unique, start, wcbuf,
                 store, todo>>

\* A winner leaves its value in the slot, a handed-over read takes it.
Publish(c) ==
  /\ cl[c].pc = "publish"
  /\ CASE cl[c].role = "winner" -> result' = cl[c].v /\ Go(c, "load")
       [] cl[c].role = "handed" ->
            /\ Turns(c, [cl[c] EXCEPT !.v = result, !.pc = "load"])
            /\ UNCHANGED result
       [] OTHER -> Done(c) /\ UNCHANGED result
  /\ UNCHANGED <<current, ticket, handover, window, unique, start, wcbuf,
                 store, todo>>

\* The tail of the queue is read once, at the start of the release.
LoadTickets(c) ==
  /\ cl[c].pc = "load"
  /\ cl' = [d \in Clients |->
              IF d = c THEN [cl[c] EXCEPT !.seen = ticket[Side(c)],
                                          !.pc = IF handover[Side(c)]
                                                   THEN "next" ELSE "open"]
              ELSE IF cl[c].role = "winner" /\ cl[d].pc # "idle"
                      /\ cl[d].side = cl[c].side /\ cl[d].k = cl[c].k
                THEN [cl[d] EXCEPT !.ov = TRUE] ELSE cl[d]]
  /\ UNCHANGED <<current, ticket, handover, window, unique, start, wcbuf,
                 result, store, todo>>

\* A winner opens the window unless one is open.
OpenWindow(c) ==
  /\ cl[c].pc = "open"
  /\ start' = TRUE
  /\ Go(c, IF start THEN "next" ELSE IF Side(c) = "r" THEN "own" ELSE "other")
  /\ UNCHANGED <<current, ticket, handover, window, unique, wcbuf, result,
                 store, todo>>

SetOwnWindow(c) ==
  /\ cl[c].pc = "own"
  /\ window' = [window EXCEPT ![Side(c)] =
                  (TicketMod + cl[c].seen - current[Side(c)]) % TicketMod]
  /\ Go(c, IF Side(c) = "r" THEN "other" ELSE "next")
  /\ UNCHANGED <<current, ticket, handover, unique, start, wcbuf, result,
                 store, todo>>

\* Client d holds r_lock or w_lock, taken with the step LeaveWindow.
Passing(d) == cl[d].pc \in {"check", "clear", "advance"}
              /\ cl[d].role # "direct"

SetOtherWindow(c) ==
  /\ cl[c].pc = "other"
  /\ LET o == Other(Side(c)) IN
       /\ \A d \in Clients : cl[d].side = o => ~Passing(d)
       /\ window' = [window EXCEPT ![o] =
                       (TicketMod + ticket[o] - current[o]) % TicketMod]
  /\ Go(c, IF Side(c) = "r" THEN "next" ELSE "own")
  /\ UNCHANGED <<current, ticket, handover, unique, start, wcbuf, result,
                 store, todo>>

\* Whether somebody is handed over; the slot's key is free when nobody is.
DecideHandover(c) ==
  /\ cl[c].pc = "next"
  /\ LET h == cl[c].seen # (current[Side(c)] + 1) % TicketMod IN
       /\ handover' = [handover EXCEPT ![Side(c)] = h]
       /\ unique' = [unique EXCEPT ![Side(c)] = IF h THEN @ ELSE NoKey]
  /\ Go(c, "drain")
  /\ UNCHANGED <<current, ticket, window, start, wcbuf, result, store, todo>>

\* Pass the queue on: leave the window, close it when it is empty on both
\* sides, advance.  A release does this under r_lock or w_lock, a client that
\* met a conflict without.
LeaveWindow(c) ==
  /\ cl[c].pc = "drain"
  /\ IF window[Side(c)] # 0
       THEN /\ window' = [window EXCEPT ![Side(c)] = @ - 1]
            /\ Go(c, "check")
       ELSE Go(c, "advance") /\ UNCHANGED window
  /\ UNCHANGED <<current, ticket, handover, unique, start, wcbuf, result,
                 store, todo>>

CheckWindow(c) ==
  /\ cl[c].pc = "check"
  /\ Go(c, IF window["r"] = 0 /\ window["w"] = 0 THEN "clear" ELSE "advance")
  /\ UNCHANGED <<current, ticket, handover, window, unique, start, wcbuf,
                 result, store, todo>>

CloseWindow(c) ==
  /\ cl[c].pc = "clear"
  /\ start' = FALSE
  /\ Go(c, "advance")
  /\ UNCHANGED <<current, ticket, handover, window, unique, wcbuf, result,
                 store, todo>>

Advance(c) ==
  /\ cl[c].pc = "advance"
  /\ current' = [current EXCEPT ![Side(c)] = (@ + 1) % TicketMod]
  /\ IF cl[c].role = "direct" THEN Go(c, "work") ELSE Done(c)
  /\ UNCHANGED <<ticket, handover, window, unique, start, wcbuf, result,
                 store, todo>>

-----------------------------------------------------------------------------
SlotInit ==
  /\ current = [s \in Sides |-> 0] /\ ticket = [s \in Sides |-> 0]
  /\ handover = [s \in Sides |-> FALSE] /\ window = [s \in Sides |-> 0]
  /\ unique = [s \in Sides |-> NoKey] /\ start = FALSE
  /\ wcbuf = <<>> /\ result = <<>>
  /\ store = [k \in SlotKeys |-> InitVal(k)]
  /\ todo \in Programs
  /\ cl = [c \in Clients |-> IdleSlot]

Acquire(c) == \/ Issue(c) \/ ClaimKey(c) \/ Deposit(c) \/ TakeTicket(c)
              \/ Granted(c) \/ TurnConflict(c)

AtLeaf(c) == GetCombiningValue(c) \/ WriteLeaf(c) \/ ReadLeaf(c)

Release(c) == \/ Publish(c) \/ LoadTickets(c) \/ OpenWindow(c)
              \/ SetOwnWindow(c) \/ SetOtherWindow(c) \/ DecideHandover(c)
              \/ LeaveWindow(c) \/ CheckWindow(c) \/ CloseWindow(c)
              \/ Advance(c)

SlotStep(c) == Acquire(c) \/ AtLeaf(c) \/ Release(c)

AllReturned == \A c \in Clients : cl[c].pc = "idle" /\ todo[c] = <<>>

SlotNext == \E c \in Clients : SlotStep(c)

SlotSpec == SlotInit /\ [][SlotNext]_slotVars

\* A coroutine that waits for its ticket is re-queued, and threads run freely.
FairSlotSpec == SlotSpec /\ \A c \in Clients : WF_slotVars(SlotStep(c))

-----------------------------------------------------------------------------
(* Properties *)

\* c is at the head of its queue: it has been granted the slot, or is passing
\* the queue on after a conflict.
Heads(c) ==
  \/ cl[c].role \in {"winner", "handed"}
  \/ cl[c].pc \in {"drain", "check", "clear", "advance"}

\* The ticket lock: nobody but the head of a queue works on that side of the
\* slot, and the head's ticket is the one being served.
SlotExclusive ==
  \A c, d \in Clients :
    /\ Heads(c) => cl[c].t = current[Side(c)]
    /\ Heads(c) /\ Heads(d) /\ Side(c) = Side(d) => c = d

\* Read delegation: whatever is handed over, a read of k returns a value
\* that was written for k.
ReadsOwnKey ==
  \A c \in Clients : Side(c) = "r" /\ cl[c].v # <<>> => cl[c].v[1] = cl[c].k

\* Write combining: no record ever gets another key's value.
WritesOwnKey == \A k \in SlotKeys : store[k][1] = k

\* The identical time window: an operation is handed over only to a winner of
\* its own kind and key that was still in progress when it was issued.  Without
\* this a combined write is lost and a delegated read is stale.
WindowOverlaps == \A c \in Clients : cl[c].role = "handed" => cl[c].ov

\* The same as long as only readers or only writers have queued at the slot
\* (an unused side has handed out no ticket).
OneSidedOverlaps == (\E s \in Sides : ticket[s] = 0) => WindowOverlaps

\* Every read and write returns: no ticket is skipped or waited for in vain,
\* and the two sides never wait for each other.
EveryOpReturns == <>AllReturned
=============================================================================

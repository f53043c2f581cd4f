----------------------- MODULE LocalLockTableProofs -----------------------
(***************************************************************************)
(* Proofs about a slot of the local lock table: its types through every    *)
(* wrap of the tickets, the exclusion of the two ticket queues, what read  *)
(* delegation may hand over, and the time window of a slot that only       *)
(* readers or only writers use.                                            *)
(***************************************************************************)
EXTENDS LocalLockTable, FiniteSetTheorems, TLAPS

(***************************************************************************)
(* What the locals of an operation in progress look like: it has a key,    *)
(* and a write has a value.                                                *)
(***************************************************************************)
LocalsOK(c) ==
  /\ cl[c].pc # "idle" => cl[c].k \in SlotKeys
  /\ cl[c].pc # "idle" /\ cl[c].side = "w" => cl[c].v \in SlotVals
  /\ cl[c].pc \in {"deposit", "write"} => cl[c].side = "w"
  /\ cl[c].pc = "publish" => cl[c].side = "r"

(***************************************************************************)
(* Before the first deposit no write has used the slot: one that found it  *)
(* taken by another key went to the leaf, and the slot still has that key. *)
(***************************************************************************)
NotDeposited(c) ==
  cl[c].side = "w" =>
    \/ cl[c].pc \in {"idle", "claim", "deposit"}
    \/ /\ cl[c].pc \in {"work", "write"} /\ cl[c].role = "direct"
       /\ unique["w"] \notin {NoKey, cl[c].k}

BufferInv == wcbuf \notin SlotVals => \A c \in Clients : NotDeposited(c)

SlotTypeInv == SlotTypeOK /\ (\A c \in Clients : LocalsOK(c)) /\ BufferInv

\* The clients that hold a ticket of side s which has not been passed on.
Queued(c) == cl[c].pc = "turn" \/ Heads(c)
Queue(s) == {c \in Clients : cl[c].side = s /\ Queued(c)}

\* x advanced by d, in the width of a ticket.
Plus(x, d) == IF x + d < TicketMod THEN x + d ELSE x + d - TicketMod

(***************************************************************************)
(* The tickets of the clients Q are distinct and consecutive, from the one *)
(* being served (head) up to the next one to be given out (tail).          *)
(***************************************************************************)
Consecutive(Q, tail, head, t) ==
  /\ tail = Plus(head, Cardinality(Q))
  /\ \A c \in Q : /\ t[c] \in 0 .. (TicketMod - 1)
                  /\ (IF t[c] >= head THEN t[c] - head ELSE t[c] + TicketMod - head)
                       < Cardinality(Q)
  /\ \A c, d \in Q : t[c] = t[d] => c = d

Tickets == [c \in Clients |-> cl[c].t]

\* So are those of either queue, and a head has the one being served.
TicketInv ==
  \A s \in Sides :
    /\ Consecutive(Queue(s), ticket[s], current[s], Tickets)
    /\ \A c \in Queue(s) : Heads(c) => cl[c].t = current[s]

\* What acquire has returned so far: nothing before its turn, and a client that
\* works on the queue has been granted the slot.
RoleOK(c) ==
  /\ cl[c].pc \in {"idle", "claim", "deposit", "ticket", "turn"} => cl[c].role = "none"
  /\ cl[c].pc \in {"work", "write"} => cl[c].role # "none"
  /\ cl[c].pc \in {"load", "open", "own", "other", "next"} => cl[c].role \in {"winner", "handed"}

QueueInv == (\A c \in Clients : RoleOK(c)) /\ TicketInv

(***************************************************************************)
(* The slot's key is that of the client that has been granted it, until    *)
(* this client lets it go; what can be handed over was read for that key.  *)
(***************************************************************************)
Holding(c) == /\ cl[c].role \in {"winner", "handed"}
              /\ cl[c].pc \notin {"drain", "check", "clear", "advance"}

Served(k) == result \in SlotVals /\ result[1] = k

HolderOK(c) ==
  /\ unique[cl[c].side] = cl[c].k
  /\ cl[c].side = "r" /\ cl[c].pc = "publish" /\ cl[c].role = "winner" =>
       cl[c].v \in SlotVals /\ cl[c].v[1] = cl[c].k
  /\ cl[c].side = "r" /\ (cl[c].role = "winner" => cl[c].pc \notin {"work", "publish"}) =>
       Served(cl[c].k)

HandoverInv ==
  /\ handover["r"] => Served(unique["r"])
  /\ \A c \in Clients : Holding(c) => HolderOK(c)

DelegationInv == HandoverInv /\ ReadsOwnKey

-----------------------------------------------------------------------------
(* Types *)

\* A remainder is in the width of a ticket.
LEMMA WidthMod ==
  ASSUME NEW x \in Int
  PROVE  x % TicketMod \in 0 .. (TicketMod - 1)
  BY SlotConstants

\* Locals of the right type are left by every step that assigns such.
LEMMA TurnsOK ==
  ASSUME SlotTypeOK, NEW c \in Clients, NEW l \in SlotLocals, Turns(c, l)
  PROVE  cl' \in [Clients -> SlotLocals]
  BY DEF SlotTypeOK, Turns

\* In particular by one that moves the program counter only.
LEMMA GoOK ==
  ASSUME SlotTypeOK, NEW c \in Clients, NEW p \in SlotPCs, Go(c, p)
  PROVE  cl' \in [Clients -> SlotLocals]
<1>1. cl[c] \in SlotLocals
  BY DEF SlotTypeOK
<1>2. [cl[c] EXCEPT !.pc = p] \in SlotLocals
  BY <1>1 DEF SlotLocals
<1>3. QED
  BY <1>2, TurnsOK DEF Go

\* A client at rest has locals of the right type.
LEMMA IdleOK == IdleSlot \in SlotLocals
  BY DEF IdleSlot, SlotLocals, SlotPCs, Sides

\* Every step keeps the type of the clients' locals.
LEMMA StepSlotLocals ==
  ASSUME SlotTypeOK, \A c \in Clients : LocalsOK(c), [SlotNext]_slotVars
  PROVE  cl' \in [Clients -> SlotLocals]
<1>1. CASE UNCHANGED slotVars
  BY <1>1 DEF slotVars, SlotTypeOK
<1>2. ASSUME NEW c \in Clients, SlotStep(c)
      PROVE  cl' \in [Clients -> SlotLocals]
  <2>1. cl[c] \in SlotLocals
    BY DEF SlotTypeOK
  <2>2. CASE Issue(c)
    <3>1. PICK o \in SlotOps : o = Head(todo[c])
      BY <2>2 DEF Issue, SlotTypeOK
    <3>2. [IdleSlot EXCEPT !.pc = "claim", !.side = o.side, !.k = o.k,
                           !.v = IF o.side = "w" THEN o.v ELSE <<>>] \in SlotLocals
      BY DEF IdleSlot, SlotLocals, SlotPCs, SlotOps, Sides
    <3>3. QED  BY <2>2, <3>1, <3>2, TurnsOK DEF Issue
  <2>3. CASE ClaimKey(c)
    <3>1. CASE unique[Side(c)] \in {NoKey, cl[c].k}
      <4>1. PICK p \in {"deposit", "ticket"} : Go(c, p)
        BY <2>3, <3>1 DEF ClaimKey
      <4>2. p \in SlotPCs  BY DEF SlotPCs
      <4>3. QED  BY <4>1, <4>2, GoOK
    <3>2. CASE unique[Side(c)] \notin {NoKey, cl[c].k}
      <4>1. [cl[c] EXCEPT !.pc = "work", !.role = "direct"] \in SlotLocals
        BY <2>1 DEF SlotLocals, SlotPCs
      <4>2. QED  BY <2>3, <3>2, <4>1, TurnsOK DEF ClaimKey
    <3>3. QED  BY <3>1, <3>2
  <2>4. CASE Deposit(c)
    <3>1. PICK p \in {"ticket"} : Go(c, p)
      BY <2>4 DEF Deposit
    <3>2. p \in SlotPCs
      BY <3>1 DEF SlotPCs
    <3>3. QED  BY <3>1, <3>2, GoOK
  <2>5. CASE TakeTicket(c)
    <3>1. ticket[Side(c)] \in Nat
      BY <2>1 DEF SlotTypeOK, SlotLocals, Side
    <3>2. [cl[c] EXCEPT !.pc = "turn", !.t = ticket[Side(c)]] \in SlotLocals
      BY <2>1, <3>1 DEF SlotLocals, SlotPCs
    <3>3. QED  BY <2>5, <3>2, TurnsOK DEF TakeTicket
  <2>6. CASE Granted(c)
    <3>1. PICK h \in BOOLEAN : Proceed(c, h)
      BY <2>6 DEF Granted
    <3>2. [cl[c] EXCEPT !.role = IF h THEN "handed" ELSE "winner",
                        !.pc = IF ~h THEN "work"
                               ELSE IF Side(c) = "r" THEN "publish" ELSE "load"] \in SlotLocals
      BY <2>1 DEF SlotLocals, SlotPCs
    <3>3. QED  BY <3>1, <3>2, TurnsOK DEF Proceed
  <2>7. CASE TurnConflict(c)
    <3>1. [cl[c] EXCEPT !.role = "direct", !.pc = "drain"] \in SlotLocals
      BY <2>1 DEF SlotTypeOK, SlotLocals, SlotPCs, Side
    <3>2. QED  BY <2>7, <3>1, TurnsOK DEF TurnConflict
  <2>8. CASE GetCombiningValue(c)
    <3>1. [cl[c] EXCEPT !.pc = "write",
                        !.v = IF unique["w"] = cl[c].k THEN wcbuf ELSE @] \in SlotLocals
      BY <2>1 DEF SlotTypeOK, SlotLocals, SlotPCs, Side
    <3>2. QED  BY <2>8, <3>1, TurnsOK DEF GetCombiningValue
  <2>9. CASE WriteLeaf(c)
    <3>1. CASE cl[c].role = "direct"
      BY <2>9, <3>1, TurnsOK, IdleOK DEF WriteLeaf, Done
    <3>2. CASE cl[c].role # "direct"
      BY <2>9, <3>2, GoOK DEF WriteLeaf, SlotPCs
    <3>3. QED  BY <3>1, <3>2
  <2>10. CASE ReadLeaf(c)
    <3>1. store[cl[c].k] \in SlotVals
      BY <2>10 DEF ReadLeaf, LocalsOK, SlotTypeOK
    <3>2. [cl[c] EXCEPT !.v = store[cl[c].k], !.pc = "publish"] \in SlotLocals
      BY <2>1, <3>1 DEF SlotLocals, SlotPCs
    <3>3. QED  BY <2>10, <3>2, TurnsOK DEF ReadLeaf
  <2>11. CASE Publish(c)
    <3>1. CASE cl[c].role = "winner"
      BY <2>11, <3>1, GoOK DEF Publish, SlotPCs
    <3>2. CASE cl[c].role = "handed"
      <4>1. [cl[c] EXCEPT !.v = result, !.pc = "load"] \in SlotLocals
        BY <2>1 DEF SlotTypeOK, SlotLocals, SlotPCs
      <4>2. QED  BY <2>11, <3>2, <4>1, TurnsOK DEF Publish
    <3>3. CASE cl[c].role \notin {"winner", "handed"}
      BY <2>11, <3>3, TurnsOK, IdleOK DEF Publish, Done
    <3>4. QED  BY <3>1, <3>2, <3>3
  <2>12. CASE LoadTickets(c)
    <3>1. PICK p \in {"next", "open"} :
            cl' = [d \in Clients |->
              IF d = c THEN [cl[c] EXCEPT !.seen = ticket[Side(c)], !.pc = p]
              ELSE IF cl[c].role = "winner" /\ cl[d].pc # "idle"
                      /\ cl[d].side = cl[c].side /\ cl[d].k = cl[c].k
                THEN [cl[d] EXCEPT !.ov = TRUE] ELSE cl[d]]
      BY <2>12 DEF LoadTickets
    <3>2. ticket[Side(c)] \in Nat
      BY <2>1 DEF SlotTypeOK, SlotLocals, Side
    <3>3. [cl[c] EXCEPT !.seen = ticket[Side(c)], !.pc = p] \in SlotLocals
      BY <2>1, <3>2 DEF SlotLocals, SlotPCs
    <3>4. \A d \in Clients : cl[d] \in SlotLocals /\ [cl[d] EXCEPT !.ov = TRUE] \in SlotLocals
      BY DEF SlotTypeOK, SlotLocals
    <3>5. QED  BY <3>1, <3>3, <3>4
  <2>13. CASE OpenWindow(c)
    <3>1. PICK p \in {"next", "own", "other"} : Go(c, p)
      BY <2>13 DEF OpenWindow
    <3>2. p \in SlotPCs
      BY <3>1 DEF SlotPCs
    <3>3. QED  BY <3>1, <3>2, GoOK
  <2>14. CASE SetOwnWindow(c)
    <3>1. PICK p \in {"next", "other"} : Go(c, p)
      BY <2>14 DEF SetOwnWindow
    <3>2. p \in SlotPCs
      BY <3>1 DEF SlotPCs
    <3>3. QED  BY <3>1, <3>2, GoOK
  <2>15. CASE SetOtherWindow(c)
    <3>1. PICK p \in {"next", "own"} : Go(c, p)
      BY <2>15 DEF SetOtherWindow
    <3>2. p \in SlotPCs
      BY <3>1 DEF SlotPCs
    <3>3. QED  BY <3>1, <3>2, GoOK
  <2>16. CASE DecideHandover(c)
    <3>1. PICK p \in {"drain"} : Go(c, p)
      BY <2>16 DEF DecideHandover
    <3>2. p \in SlotPCs
      BY <3>1 DEF SlotPCs
    <3>3. QED  BY <3>1, <3>2, GoOK
  <2>17. CASE LeaveWindow(c)
    <3>1. PICK p \in {"check", "advance"} : Go(c, p)
      BY <2>17 DEF LeaveWindow
    <3>2. p \in SlotPCs
      BY <3>1 DEF SlotPCs
    <3>3. QED  BY <3>1, <3>2, GoOK
  <2>18. CASE CheckWindow(c)
    <3>1. PICK p \in {"clear", "advance"} : Go(c, p)
      BY <2>18 DEF CheckWindow
    <3>2. p \in SlotPCs
      BY <3>1 DEF SlotPCs
    <3>3. QED  BY <3>1, <3>2, GoOK
  <2>19. CASE CloseWindow(c)
    <3>1. PICK p \in {"advance"} : Go(c, p)
      BY <2>19 DEF CloseWindow
    <3>2. p \in SlotPCs
      BY <3>1 DEF SlotPCs
    <3>3. QED  BY <3>1, <3>2, GoOK
  <2>20. CASE Advance(c)
    <3>1. CASE cl[c].role = "direct"
      BY <2>20, <3>1, GoOK DEF Advance, SlotPCs
    <3>2. CASE cl[c].role # "direct"
      BY <2>20, <3>2, TurnsOK, IdleOK DEF Advance, Done
    <3>3. QED  BY <3>1, <3>2
  <2>21. QED
    BY <1>2, <2>2, <2>3, <2>4, <2>5, <2>6, <2>7, <2>8, <2>9, <2>10, <2>11, <2>12, <2>13, <2>14, <2>15, <2>16, <2>17, <2>18, <2>19, <2>20
    DEF SlotStep, Acquire, AtLeaf, Release
<1>3. QED  BY <1>1, <1>2 DEF SlotNext

\* Every step keeps the types.
LEMMA StepSlotType ==
  ASSUME SlotTypeOK, \A c \in Clients : LocalsOK(c), [SlotNext]_slotVars
  PROVE  SlotTypeOK'
<1>1. CASE UNCHANGED slotVars
  BY <1>1 DEF slotVars, SlotTypeOK
<1>2. ASSUME NEW c \in Clients, SlotStep(c)
      PROVE  SlotTypeOK'
  <2>1. cl[c].side \in Sides /\ cl[c].seen \in Nat /\ cl[c].k \in SlotKeys \cup {NoKey}
        /\ cl[c].v \in SlotVals \cup {<<>>}
    BY DEF SlotTypeOK, SlotLocals
  <2>2. CASE Issue(c)
    BY <2>2, StepSlotLocals DEF Issue, SlotTypeOK
  <2>3. CASE ClaimKey(c)
    BY <2>3, <2>1, StepSlotLocals DEF ClaimKey, SlotTypeOK, Side, SlotLocals
  <2>4. CASE Deposit(c)
    BY <2>4, <2>1, StepSlotLocals DEF Deposit, SlotTypeOK
  <2>5. CASE TakeTicket(c)
    BY <2>5, <2>1, StepSlotLocals, WidthMod DEF TakeTicket, SlotTypeOK, Side
  <2>6. CASE Granted(c)
    BY <2>6, StepSlotLocals DEF Granted, Proceed, SlotTypeOK
  <2>7. CASE TurnConflict(c)
    BY <2>7, StepSlotLocals DEF TurnConflict, SlotTypeOK
  <2>8. CASE GetCombiningValue(c)
    BY <2>8, StepSlotLocals DEF GetCombiningValue, SlotTypeOK
  <2>9. CASE WriteLeaf(c)
    <3>1. cl[c].v \in SlotVals
      BY <2>9 DEF WriteLeaf, LocalsOK
    <3>2. QED  BY <2>9, <3>1, StepSlotLocals DEF WriteLeaf, SlotTypeOK
  <2>10. CASE ReadLeaf(c)
    BY <2>10, StepSlotLocals DEF ReadLeaf, SlotTypeOK
  <2>11. CASE Publish(c)
    BY <2>11, <2>1, StepSlotLocals DEF Publish, SlotTypeOK
  <2>12. CASE LoadTickets(c)
    BY <2>12, StepSlotLocals DEF LoadTickets, SlotTypeOK
  <2>13. CASE OpenWindow(c)
    BY <2>13, StepSlotLocals DEF OpenWindow, SlotTypeOK
  <2>14. CASE SetOwnWindow(c)
    <3>1. TicketMod + cl[c].seen - current[Side(c)] \in Int
      BY <2>1, SlotConstants DEF SlotTypeOK, Side
    <3>2. QED  BY <2>14, <3>1, WidthMod, StepSlotLocals DEF SetOwnWindow, SlotTypeOK
  <2>15. CASE SetOtherWindow(c)
    <3>1. PICK o \in Sides :
            window' = [window EXCEPT ![o] = (TicketMod + ticket[o] - current[o]) % TicketMod]
      BY <2>15 DEF SetOtherWindow, Other, Sides
    <3>2. TicketMod + ticket[o] - current[o] \in Int
      BY SlotConstants DEF SlotTypeOK
    <3>3. QED  BY <2>15, <3>1, <3>2, WidthMod, StepSlotLocals DEF SetOtherWindow, SlotTypeOK
  <2>16. CASE DecideHandover(c)
    BY <2>16, StepSlotLocals DEF DecideHandover, SlotTypeOK
  <2>17. CASE LeaveWindow(c)
    <3>1. window[Side(c)] \in 0 .. (TicketMod - 1)
      BY <2>1 DEF SlotTypeOK, Side
    <3>2. PICK n \in 0 .. (TicketMod - 1) : window' = [window EXCEPT ![Side(c)] = n] \/ window' = window
      <4>1. CASE window[Side(c)] # 0
        <5>1. window[Side(c)] - 1 \in 0 .. (TicketMod - 1)
          BY <3>1, <4>1, SlotConstants
        <5>2. QED  BY <2>17, <4>1, <5>1 DEF LeaveWindow
      <4>2. CASE window[Side(c)] = 0
        BY <2>17, <3>1, <4>2 DEF LeaveWindow
      <4>3. QED  BY <4>1, <4>2
    <3>3. window' \in [Sides -> 0 .. (TicketMod - 1)]
      BY <3>2 DEF SlotTypeOK
    <3>4. QED  BY <2>17, <3>3, StepSlotLocals DEF LeaveWindow, SlotTypeOK
  <2>18. CASE CheckWindow(c)
    BY <2>18, StepSlotLocals DEF CheckWindow, SlotTypeOK
  <2>19. CASE CloseWindow(c)
    BY <2>19, StepSlotLocals DEF CloseWindow, SlotTypeOK
  <2>20. CASE Advance(c)
    <3>1. (current[Side(c)] + 1) % TicketMod \in 0 .. (TicketMod - 1)
      <4>1. current[Side(c)] + 1 \in Int
        BY <2>1 DEF SlotTypeOK, Side
      <4>2. QED  BY <4>1, WidthMod
    <3>2. PICK n \in 0 .. (TicketMod - 1) : current' = [current EXCEPT ![Side(c)] = n]
      <4>1. current' = [current EXCEPT ![Side(c)] = (current[Side(c)] + 1) % TicketMod]
        BY <2>20 DEF Advance
      <4>2. QED  BY <3>1, <4>1
    <3>3. current' \in [Sides -> 0 .. (TicketMod - 1)]
      BY <3>2 DEF SlotTypeOK
    <3>4. QED  BY <2>20, <3>3, StepSlotLocals DEF Advance, SlotTypeOK
  <2>21. QED
    BY <1>2, <2>2, <2>3, <2>4, <2>5, <2>6, <2>7, <2>8, <2>9, <2>10, <2>11, <2>12, <2>13, <2>14, <2>15, <2>16, <2>17, <2>18, <2>19, <2>20
    DEF SlotStep, Acquire, AtLeaf, Release
<1>3. QED  BY <1>1, <1>2 DEF SlotNext

-----------------------------------------------------------------------------
(* What a step does to the locals of its client, and of the others *)

\* The locals of d but for the ghost ov are left alone.
KeepsLocals(d) ==
  /\ cl'[d].pc = cl[d].pc /\ cl'[d].side = cl[d].side /\ cl'[d].k = cl[d].k
  /\ cl'[d].v = cl[d].v /\ cl'[d].t = cl[d].t /\ cl'[d].role = cl[d].role

\* Client c goes to p with its locals, but those named in the lemma, unchanged.
LEMMA GoFields ==
  ASSUME SlotTypeOK, NEW c \in Clients, NEW p, Go(c, p)
  PROVE  /\ cl'[c].pc = p /\ cl'[c].side = cl[c].side /\ cl'[c].k = cl[c].k
         /\ cl'[c].v = cl[c].v /\ cl'[c].t = cl[c].t /\ cl'[c].role = cl[c].role
<1>1. cl'[c] = [cl[c] EXCEPT !.pc = p] /\ cl[c] \in SlotLocals
  BY DEF SlotTypeOK, Go, Turns
<1>2. QED  BY <1>1 DEF SlotLocals

\* Client c goes to p in the role r.
LEMMA RoleFields ==
  ASSUME SlotTypeOK, NEW c \in Clients, NEW p, NEW r,
         Turns(c, [cl[c] EXCEPT !.pc = p, !.role = r])
         \/ Turns(c, [cl[c] EXCEPT !.role = r, !.pc = p])
  PROVE  /\ cl'[c].pc = p /\ cl'[c].side = cl[c].side /\ cl'[c].k = cl[c].k
         /\ cl'[c].v = cl[c].v /\ cl'[c].t = cl[c].t /\ cl'[c].role = r
<1>1. cl[c] \in SlotLocals
  BY DEF SlotTypeOK
<1>2. \/ cl'[c] = [cl[c] EXCEPT !.pc = p, !.role = r]
      \/ cl'[c] = [cl[c] EXCEPT !.role = r, !.pc = p]
  BY DEF SlotTypeOK, Turns
<1>3. QED  BY <1>1, <1>2 DEF SlotLocals

\* Client c goes to p with the value v.
LEMMA ValueFields ==
  ASSUME SlotTypeOK, NEW c \in Clients, NEW p, NEW v,
         Turns(c, [cl[c] EXCEPT !.pc = p, !.v = v])
         \/ Turns(c, [cl[c] EXCEPT !.v = v, !.pc = p])
  PROVE  /\ cl'[c].pc = p /\ cl'[c].side = cl[c].side /\ cl'[c].k = cl[c].k
         /\ cl'[c].v = v /\ cl'[c].t = cl[c].t /\ cl'[c].role = cl[c].role
<1>1. cl[c] \in SlotLocals
  BY DEF SlotTypeOK
<1>2. \/ cl'[c] = [cl[c] EXCEPT !.pc = p, !.v = v]
      \/ cl'[c] = [cl[c] EXCEPT !.v = v, !.pc = p]
  BY DEF SlotTypeOK, Turns
<1>3. QED  BY <1>1, <1>2 DEF SlotLocals

\* A client that draws a ticket has the number it drew.
LEMMA TicketFields ==
  ASSUME SlotTypeOK, NEW c \in Clients, TakeTicket(c)
  PROVE  /\ cl'[c].pc = "turn" /\ cl'[c].side = cl[c].side /\ cl'[c].k = cl[c].k
         /\ cl'[c].v = cl[c].v /\ cl'[c].t = ticket[cl[c].side] /\ cl'[c].role = cl[c].role
<1>1. cl'[c] = [cl[c] EXCEPT !.pc = "turn", !.t = ticket[Side(c)]] /\ cl[c] \in SlotLocals
  BY DEF SlotTypeOK, TakeTicket, Turns
<1>2. QED  BY <1>1 DEF SlotLocals, Side

\* A client at rest.
LEMMA DoneFields ==
  ASSUME SlotTypeOK, NEW c \in Clients, Done(c)
  PROVE  /\ cl'[c].pc = "idle" /\ cl'[c].side = "r" /\ cl'[c].k = NoKey
         /\ cl'[c].v = <<>> /\ cl'[c].role = "none"
  BY DEF SlotTypeOK, Done, Turns, IdleSlot

\* A client that starts an operation.
LEMMA IssueFields ==
  ASSUME SlotTypeOK, NEW c \in Clients, Issue(c)
  PROVE  /\ cl'[c].pc = "claim" /\ cl'[c].side \in Sides /\ cl'[c].k \in SlotKeys
         /\ cl'[c].role = "none"
         /\ IF cl'[c].side = "w" THEN cl'[c].v \in SlotVals ELSE cl'[c].v = <<>>
<1>1. PICK o \in SlotOps : o = Head(todo[c])
  BY DEF Issue, SlotTypeOK
<1>2. cl'[c] = [IdleSlot EXCEPT !.pc = "claim", !.side = o.side, !.k = o.k,
                                !.v = IF o.side = "w" THEN o.v ELSE <<>>]
  BY <1>1 DEF Issue, Turns, SlotTypeOK
<1>3. QED  BY <1>2 DEF IdleSlot, SlotOps

\* A client that reads the tail of the queue.
LEMMA LoadFields ==
  ASSUME SlotTypeOK, NEW c \in Clients, LoadTickets(c)
  PROVE  /\ cl'[c].pc = IF handover[cl[c].side] THEN "next" ELSE "open"
         /\ cl'[c].side = cl[c].side /\ cl'[c].k = cl[c].k
         /\ cl'[c].v = cl[c].v /\ cl'[c].t = cl[c].t /\ cl'[c].role = cl[c].role
<1>1. cl[c] \in SlotLocals
  BY DEF SlotTypeOK
<1>2. cl'[c] = [cl[c] EXCEPT !.seen = ticket[Side(c)],
                             !.pc = IF handover[Side(c)] THEN "next" ELSE "open"]
  BY DEF LoadTickets
<1>3. QED  BY <1>1, <1>2 DEF SlotLocals, Side

\* No step touches the locals of another client, but for the ghost.
LEMMA OthersKeep ==
  ASSUME SlotTypeOK, NEW c \in Clients, SlotStep(c), NEW d \in Clients, d # c
  PROVE  KeepsLocals(d)
<1>1. (\E l : Turns(c, l)) => KeepsLocals(d)
  BY DEF Turns, KeepsLocals, SlotTypeOK
<1>2. CASE LoadTickets(c)
  <2>1. cl'[d] = cl[d] \/ cl'[d] = [cl[d] EXCEPT !.ov = TRUE]
    BY <1>2 DEF LoadTickets
  <2>2. cl[d] \in SlotLocals
    BY DEF SlotTypeOK
  <2>3. QED  BY <2>1, <2>2 DEF KeepsLocals, SlotLocals
<1>3. CASE Acquire(c)
  BY <1>1, <1>3
  DEF Acquire, Issue, ClaimKey, Deposit, TakeTicket, Granted, Proceed, TurnConflict, Go
<1>4. CASE AtLeaf(c)
  BY <1>1, <1>4 DEF AtLeaf, GetCombiningValue, WriteLeaf, ReadLeaf, Go, Done
<1>5. CASE Release(c) /\ ~LoadTickets(c)
  <2>1. CASE Publish(c)
    BY <1>1, <2>1 DEF Publish, Go, Done
  <2>2. CASE ~Publish(c)
    BY <1>1, <1>5, <2>2
    DEF Release, OpenWindow, SetOwnWindow, SetOtherWindow, DecideHandover, LeaveWindow,
        CheckWindow, CloseWindow, Advance, Go, Done
  <2>3. QED  BY <2>1, <2>2
<1>6. QED
  BY <1>2, <1>3, <1>4, <1>5 DEF SlotStep

-----------------------------------------------------------------------------
(* Locals and the buffer of combined writes *)

\* Every step leaves its client with a key, and a write with a value.
LEMMA OwnLocals ==
  ASSUME SlotTypeOK, \A d \in Clients : LocalsOK(d), BufferInv, NEW c \in Clients, SlotStep(c)
  PROVE  LocalsOK(c)'
<1>1. CASE Issue(c)
  BY <1>1, IssueFields DEF LocalsOK
<1>2. CASE ClaimKey(c)
  <2>1. CASE unique[Side(c)] \in {NoKey, cl[c].k}
    BY <1>2, <2>1, GoFields DEF ClaimKey, LocalsOK, Side
  <2>2. CASE unique[Side(c)] \notin {NoKey, cl[c].k}
    <3>1. cl[c].pc = "claim" /\ Turns(c, [cl[c] EXCEPT !.pc = "work", !.role = "direct"])
      BY <1>2, <2>2 DEF ClaimKey
    <3>2. /\ cl'[c].pc = "work" /\ cl'[c].side = cl[c].side /\ cl'[c].k = cl[c].k
          /\ cl'[c].v = cl[c].v
      BY <3>1, RoleFields
    <3>3. QED  BY <3>1, <3>2 DEF LocalsOK
  <2>3. QED  BY <2>1, <2>2
<1>3. CASE Deposit(c)
  BY <1>3, GoFields DEF Deposit, LocalsOK
<1>4. CASE TakeTicket(c)
  BY <1>4, TicketFields DEF TakeTicket, LocalsOK
<1>5. CASE Granted(c)
  <2>1. PICK h \in BOOLEAN : Proceed(c, h)
    BY <1>5 DEF Granted
  <2>2. PICK p \in {"work", "publish", "load"} :
          \E r : /\ Turns(c, [cl[c] EXCEPT !.role = r, !.pc = p])
                 /\ p = "publish" => cl[c].side = "r"
    BY <2>1 DEF Proceed, Side
  <2>3. /\ cl'[c].pc = p /\ cl'[c].side = cl[c].side /\ cl'[c].k = cl[c].k
        /\ cl'[c].v = cl[c].v
    BY <2>2, RoleFields
  <2>4. QED  BY <1>5, <2>2, <2>3 DEF Granted, LocalsOK
<1>6. CASE TurnConflict(c)
  BY <1>6, RoleFields DEF TurnConflict, LocalsOK
<1>7. CASE GetCombiningValue(c)
  <2>1. cl[c].pc = "work" /\ cl[c].side = "w"
    BY <1>7 DEF GetCombiningValue, Side
  <2>2. unique["w"] = cl[c].k => wcbuf \in SlotVals
    BY <2>1 DEF BufferInv, NotDeposited
  <2>3. PICK v \in SlotVals : Turns(c, [cl[c] EXCEPT !.pc = "write", !.v = v])
    BY <1>7, <2>1, <2>2 DEF GetCombiningValue, LocalsOK
  <2>4. cl'[c].pc = "write" /\ cl'[c].side = cl[c].side /\ cl'[c].k = cl[c].k /\ cl'[c].v = v
    <3>1. cl'[c] = [cl[c] EXCEPT !.pc = "write", !.v = v] /\ cl[c] \in SlotLocals
      BY <2>3 DEF Turns, SlotTypeOK
    <3>2. QED  BY <3>1 DEF SlotLocals
  <2>5. QED  BY <2>1, <2>4 DEF LocalsOK
<1>8. CASE WriteLeaf(c)
  <2>1. CASE cl[c].role = "direct"
    BY <1>8, <2>1, DoneFields DEF WriteLeaf, LocalsOK
  <2>2. CASE cl[c].role # "direct"
    BY <1>8, <2>2, GoFields DEF WriteLeaf, LocalsOK
  <2>3. QED  BY <2>1, <2>2
<1>9. CASE ReadLeaf(c)
  BY <1>9, ValueFields DEF ReadLeaf, LocalsOK, Side
<1>10. CASE Publish(c)
  <2>1. CASE cl[c].role = "winner"
    BY <1>10, <2>1, GoFields DEF Publish, LocalsOK
  <2>2. CASE cl[c].role = "handed"
    <3>1. cl[c].side = "r"
      BY <1>10 DEF Publish, LocalsOK
    <3>2. QED  BY <1>10, <2>2, <3>1, ValueFields DEF Publish, LocalsOK
  <2>3. CASE cl[c].role \notin {"winner", "handed"}
    BY <1>10, <2>3, DoneFields DEF Publish, LocalsOK
  <2>4. QED  BY <2>1, <2>2, <2>3
<1>11. CASE LoadTickets(c)
  <2>1. /\ cl[c].pc = "load" /\ cl'[c].pc \in {"next", "open"}
        /\ cl'[c].side = cl[c].side /\ cl'[c].k = cl[c].k /\ cl'[c].v = cl[c].v
    BY <1>11, LoadFields DEF LoadTickets
  <2>2. QED  BY <2>1 DEF LocalsOK
<1>12. CASE OpenWindow(c)
  BY <1>12, GoFields DEF OpenWindow, LocalsOK
<1>13. CASE SetOwnWindow(c)
  BY <1>13, GoFields DEF SetOwnWindow, LocalsOK
<1>14. CASE SetOtherWindow(c)
  BY <1>14, GoFields DEF SetOtherWindow, LocalsOK
<1>15. CASE DecideHandover(c)
  BY <1>15, GoFields DEF DecideHandover, LocalsOK
<1>16. CASE LeaveWindow(c)
  BY <1>16, GoFields DEF LeaveWindow, LocalsOK
<1>17. CASE CheckWindow(c)
  BY <1>17, GoFields DEF CheckWindow, LocalsOK
<1>18. CASE CloseWindow(c)
  BY <1>18, GoFields DEF CloseWindow, LocalsOK
<1>19. CASE Advance(c)
  <2>1. CASE cl[c].role = "direct"
    BY <1>19, <2>1, GoFields DEF Advance, LocalsOK
  <2>2. CASE cl[c].role # "direct"
    BY <1>19, <2>2, DoneFields DEF Advance, LocalsOK
  <2>3. QED  BY <2>1, <2>2
<1>20. QED
  BY <1>1, <1>2, <1>3, <1>4, <1>5, <1>6, <1>7, <1>8, <1>9, <1>10, <1>11, <1>12, <1>13, <1>14, <1>15, <1>16, <1>17, <1>18, <1>19
  DEF SlotStep, Acquire, AtLeaf, Release

\* Every step keeps the locals in order.
LEMMA StepLocals ==
  ASSUME SlotTypeInv, [SlotNext]_slotVars
  PROVE  \A d \in Clients : LocalsOK(d)'
<1>1. CASE UNCHANGED slotVars
  BY <1>1 DEF slotVars, SlotTypeInv, LocalsOK
<1>2. ASSUME NEW c \in Clients, SlotStep(c), NEW d \in Clients
      PROVE  LocalsOK(d)'
  <2>1. CASE d = c
    BY <1>2, <2>1, OwnLocals DEF SlotTypeInv
  <2>2. CASE d # c
    <3>1. KeepsLocals(d)
      BY <1>2, <2>2, OthersKeep DEF SlotTypeInv
    <3>2. QED  BY <3>1 DEF SlotTypeInv, KeepsLocals, LocalsOK
  <2>3. QED  BY <2>1, <2>2
<1>3. QED  BY <1>1, <1>2 DEF SlotNext

\* Before the first deposit, a step leaves its client without one, too.
LEMMA OwnDeposit ==
  ASSUME SlotTypeOK, NEW c \in Clients, SlotStep(c), LocalsOK(c),
         NotDeposited(c), wcbuf' \notin SlotVals
  PROVE  NotDeposited(c)'
<1>1. CASE Issue(c)
  BY IssueFields, <1>1 DEF NotDeposited
<1>2. CASE ClaimKey(c)
  <2>1. CASE unique[Side(c)] \in {NoKey, cl[c].k}
    BY <1>2, <2>1, GoFields DEF ClaimKey, NotDeposited, Side
  <2>2. CASE unique[Side(c)] \notin {NoKey, cl[c].k}
    <3>1. Turns(c, [cl[c] EXCEPT !.pc = "work", !.role = "direct"]) /\ unique' = unique
      BY <1>2, <2>2 DEF ClaimKey
    <3>2. /\ cl'[c].pc = "work" /\ cl'[c].side = cl[c].side /\ cl'[c].k = cl[c].k
          /\ cl'[c].role = "direct"
      <4>1. cl'[c] = [cl[c] EXCEPT !.pc = "work", !.role = "direct"] /\ cl[c] \in SlotLocals
        BY <3>1 DEF Turns, SlotTypeOK
      <4>2. QED  BY <4>1 DEF SlotLocals
    <3>3. QED  BY <2>2, <3>1, <3>2 DEF NotDeposited, Side
  <2>3. QED  BY <2>1, <2>2
<1>3. CASE Deposit(c)
  <2>1. wcbuf' \in SlotVals
    BY <1>3 DEF Deposit, LocalsOK
  <2>2. QED  BY <2>1
<1>4. CASE TakeTicket(c)
  <2>1. cl[c].side # "w"
    BY <1>4 DEF TakeTicket, NotDeposited
  <2>2. QED  BY <1>4, <2>1, TicketFields DEF NotDeposited
<1>5. CASE Granted(c)
  <2>1. cl[c].side # "w"
    BY <1>5 DEF Granted, NotDeposited
  <2>2. PICK p, r : Turns(c, [cl[c] EXCEPT !.role = r, !.pc = p])
    BY <1>5 DEF Granted, Proceed
  <2>3. cl'[c].side = cl[c].side
    BY <2>2, RoleFields
  <2>4. QED  BY <2>1, <2>3 DEF NotDeposited
<1>6. CASE TurnConflict(c)
  <2>1. cl[c].side # "w"
    BY <1>6 DEF TurnConflict, NotDeposited
  <2>2. cl'[c].side \in {cl[c].side, "r"}
    BY <1>6, RoleFields DEF TurnConflict
  <2>3. QED  BY <2>1, <2>2 DEF NotDeposited
<1>7. CASE GetCombiningValue(c)
  <2>1. PICK v : Turns(c, [cl[c] EXCEPT !.pc = "write", !.v = v]) /\ cl[c].pc = "work"
    BY <1>7 DEF GetCombiningValue
  <2>2. /\ cl'[c].pc = "write" /\ cl'[c].side = cl[c].side /\ cl'[c].k = cl[c].k
        /\ cl'[c].role = cl[c].role
    <3>1. cl'[c] = [cl[c] EXCEPT !.pc = "write", !.v = v] /\ cl[c] \in SlotLocals
      BY <2>1 DEF Turns, SlotTypeOK
    <3>2. QED  BY <3>1 DEF SlotLocals
  <2>3. QED  BY <1>7, <2>1, <2>2 DEF GetCombiningValue, NotDeposited
<1>8. CASE WriteLeaf(c)
  <2>1. CASE cl[c].role = "direct"
    BY <1>8, <2>1, DoneFields DEF WriteLeaf, NotDeposited
  <2>2. CASE cl[c].role # "direct"
    BY <1>8, <2>2, GoFields DEF WriteLeaf, NotDeposited
  <2>3. QED  BY <2>1, <2>2
<1>9. CASE ReadLeaf(c)
  <2>1. cl[c].side # "w"
    BY <1>9 DEF ReadLeaf, NotDeposited, Side
  <2>2. cl'[c].side \in {cl[c].side, "r"}
    BY <1>9, ValueFields DEF ReadLeaf
  <2>3. QED  BY <2>1, <2>2 DEF NotDeposited
<1>10. CASE Publish(c)
  <2>1. cl[c].side # "w"
    BY <1>10 DEF Publish, NotDeposited
  <2>2. CASE cl[c].role = "winner"
    BY <1>10, <2>1, <2>2, GoFields DEF Publish, NotDeposited
  <2>3. CASE cl[c].role = "handed"
    <3>1. cl'[c].side = cl[c].side
      BY <1>10, <2>3, ValueFields DEF Publish
    <3>2. QED  BY <2>1, <3>1 DEF NotDeposited
  <2>4. CASE cl[c].role \notin {"winner", "handed"}
    BY <1>10, <2>4, DoneFields DEF Publish, NotDeposited
  <2>5. QED  BY <2>2, <2>3, <2>4
<1>11. CASE LoadTickets(c)
  <2>1. cl[c].side # "w"
    BY <1>11 DEF LoadTickets, NotDeposited
  <2>2. cl'[c].side \in {cl[c].side, "r"}
    BY <1>11, LoadFields DEF LoadTickets
  <2>3. QED  BY <2>1, <2>2 DEF NotDeposited
<1>12. CASE OpenWindow(c)
  <2>1. cl[c].side # "w"
    BY <1>12 DEF OpenWindow, NotDeposited
  <2>2. cl'[c].side \in {cl[c].side, "r"}
    BY <1>12, GoFields DEF OpenWindow
  <2>3. QED  BY <2>1, <2>2 DEF NotDeposited
<1>13. CASE SetOwnWindow(c)
  <2>1. cl[c].side # "w"
    BY <1>13 DEF SetOwnWindow, NotDeposited
  <2>2. cl'[c].side \in {cl[c].side, "r"}
    BY <1>13, GoFields DEF SetOwnWindow
  <2>3. QED  BY <2>1, <2>2 DEF NotDeposited
<1>14. CASE SetOtherWindow(c)
  <2>1. cl[c].side # "w"
    BY <1>14 DEF SetOtherWindow, NotDeposited
  <2>2. cl'[c].side \in {cl[c].side, "r"}
    BY <1>14, GoFields DEF SetOtherWindow
  <2>3. QED  BY <2>1, <2>2 DEF NotDeposited
<1>15. CASE DecideHandover(c)
  <2>1. cl[c].side # "w"
    BY <1>15 DEF DecideHandover, NotDeposited
  <2>2. cl'[c].side \in {cl[c].side, "r"}
    BY <1>15, GoFields DEF DecideHandover
  <2>3. QED  BY <2>1, <2>2 DEF NotDeposited
<1>16. CASE LeaveWindow(c)
  <2>1. cl[c].side # "w"
    BY <1>16 DEF LeaveWindow, NotDeposited
  <2>2. cl'[c].side \in {cl[c].side, "r"}
    BY <1>16, GoFields DEF LeaveWindow
  <2>3. QED  BY <2>1, <2>2 DEF NotDeposited
<1>17. CASE CheckWindow(c)
  <2>1. cl[c].side # "w"
    BY <1>17 DEF CheckWindow, NotDeposited
  <2>2. cl'[c].side \in {cl[c].side, "r"}
    BY <1>17, GoFields DEF CheckWindow
  <2>3. QED  BY <2>1, <2>2 DEF NotDeposited
<1>18. CASE CloseWindow(c)
  <2>1. cl[c].side # "w"
    BY <1>18 DEF CloseWindow, NotDeposited
  <2>2. cl'[c].side \in {cl[c].side, "r"}
    BY <1>18, GoFields DEF CloseWindow
  <2>3. QED  BY <2>1, <2>2 DEF NotDeposited
<1>19. CASE Advance(c)
  <2>1. cl[c].side # "w"
    BY <1>19 DEF Advance, NotDeposited
  <2>2. CASE cl[c].role = "direct"
    BY <1>19, <2>1, <2>2, GoFields DEF Advance, NotDeposited
  <2>3. CASE cl[c].role # "direct"
    BY <1>19, <2>3, DoneFields DEF Advance, NotDeposited
  <2>4. QED  BY <2>2, <2>3
<1>20. QED
  BY <1>1, <1>2, <1>3, <1>4, <1>5, <1>6, <1>7, <1>8, <1>9, <1>10, <1>11, <1>12, <1>13, <1>14, <1>15, <1>16, <1>17, <1>18, <1>19
  DEF SlotStep, Acquire, AtLeaf, Release

\* Every step keeps the buffer ready for whoever will combine.
LEMMA StepBuffer ==
  ASSUME SlotTypeInv, [SlotNext]_slotVars
  PROVE  BufferInv'
<1>1. CASE UNCHANGED slotVars
  BY <1>1 DEF slotVars, SlotTypeInv, BufferInv, NotDeposited
<1>2. ASSUME NEW c \in Clients, SlotStep(c), wcbuf' \notin SlotVals, NEW d \in Clients
      PROVE  NotDeposited(d)'
  <2>1. wcbuf \notin SlotVals
    <3>1. CASE Deposit(c)
      BY <1>2, <3>1 DEF SlotTypeInv, LocalsOK, Deposit
    <3>2. CASE ~Deposit(c)
      <4>1. wcbuf' = wcbuf
        BY <1>2, <3>2
        DEF SlotStep, Acquire, AtLeaf, Release, Issue, ClaimKey, TakeTicket, Granted, Proceed,
            TurnConflict, GetCombiningValue, WriteLeaf, ReadLeaf, Publish, LoadTickets,
            OpenWindow, SetOwnWindow, SetOtherWindow, DecideHandover, LeaveWindow,
            CheckWindow, CloseWindow, Advance
      <4>2. QED  BY <1>2, <4>1
    <3>3. QED  BY <3>1, <3>2
  <2>2. \A e \in Clients : NotDeposited(e) /\ LocalsOK(e)
    BY <2>1 DEF SlotTypeInv, BufferInv
  <2>3. CASE d = c
    BY <1>2, <2>2, <2>3, OwnDeposit DEF SlotTypeInv
  <2>4. CASE d # c
    <3>1. KeepsLocals(d)
      BY <1>2, <2>4, OthersKeep DEF SlotTypeInv
    <3>2. unique'["w"] = unique["w"] \/ unique["w"] = NoKey
      <4>1. CASE ClaimKey(c)
        <5>1. \/ unique' = unique
              \/ /\ unique' = [unique EXCEPT ![Side(c)] = cl[c].k]
                 /\ unique[Side(c)] \in {NoKey, cl[c].k}
          BY <4>1 DEF ClaimKey
        <5>2. Side(c) \in Sides
          BY DEF SlotTypeInv, SlotTypeOK, SlotLocals, Side
        <5>3. QED  BY <5>1, <5>2 DEF SlotTypeInv, SlotTypeOK, Sides
      <4>2. CASE DecideHandover(c)
        <5>1. Side(c) = "r"
          BY <2>2, <4>2 DEF NotDeposited, DecideHandover, SlotTypeInv, SlotTypeOK, SlotLocals, Side, Sides
        <5>2. QED  BY <4>2, <5>1 DEF DecideHandover, SlotTypeInv, SlotTypeOK, Sides
      <4>3. CASE ~ClaimKey(c) /\ ~DecideHandover(c)
        BY <1>2, <4>3
        DEF SlotStep, Acquire, AtLeaf, Release, Issue, Deposit, TakeTicket, Granted, Proceed,
            TurnConflict, GetCombiningValue, WriteLeaf, ReadLeaf, Publish, LoadTickets,
            OpenWindow, SetOwnWindow, SetOtherWindow, LeaveWindow,
            CheckWindow, CloseWindow, Advance
      <4>4. QED  BY <4>1, <4>2, <4>3
    <3>3. QED  BY <2>2, <3>1, <3>2 DEF KeepsLocals, NotDeposited
  <2>5. QED  BY <2>3, <2>4
<1>3. QED  BY <1>1, <1>2 DEF SlotNext, BufferInv

\* The initial state has the types.
LEMMA InitSlotType == SlotInit => SlotTypeInv
<1> SUFFICES ASSUME SlotInit PROVE SlotTypeInv
  OBVIOUS
<1>1. \A k \in SlotKeys : InitVal(k) \in SlotVals
  BY DEF InitVal, SlotVals
<1>2. SlotTypeOK
  <2>1. 0 \in 0 .. (TicketMod - 1)
    BY SlotConstants
  <2>2. /\ current \in [Sides -> 0 .. (TicketMod - 1)] /\ ticket \in [Sides -> 0 .. (TicketMod - 1)]
        /\ window \in [Sides -> 0 .. (TicketMod - 1)]
    BY <2>1 DEF SlotInit
  <2>3. todo \in [Clients -> Seq(SlotOps)]
    BY SlotConstants DEF SlotInit
  <2>4. cl \in [Clients -> SlotLocals]
    BY IdleOK DEF SlotInit
  <2>5. store \in [SlotKeys -> SlotVals]
    BY <1>1 DEF SlotInit
  <2>6. QED  BY <2>2, <2>3, <2>4, <2>5 DEF SlotInit, SlotTypeOK
<1>3. \A c \in Clients : cl[c].pc = "idle"
  BY DEF SlotInit, IdleSlot
<1>4. QED
  BY <1>2, <1>3 DEF SlotTypeInv, LocalsOK, BufferInv, NotDeposited

\* Every step keeps the types.
LEMMA StepSlotTypeInv == SlotTypeInv /\ [SlotNext]_slotVars => SlotTypeInv'
  BY StepSlotType, StepLocals, StepBuffer DEF SlotTypeInv

\* The fields of a slot and the locals of its clients keep their types, tickets
\* and windows the width of a uint8_t, and no record is ever overwritten by an
\* empty buffer, for every set of clients, keys and programs.
THEOREM SlotTypes == SlotSpec => []SlotTypeOK
<1>1. SlotTypeInv => SlotTypeOK
  BY DEF SlotTypeInv
<1>2. QED  BY <1>1, InitSlotType, StepSlotTypeInv, PTL DEF SlotSpec

-----------------------------------------------------------------------------
(* The ticket queues *)

\* Every step leaves its client with the role its place asks for.
LEMMA OwnRole ==
  ASSUME SlotTypeOK, NEW c \in Clients, SlotStep(c), LocalsOK(c), RoleOK(c)
  PROVE  RoleOK(c)'
<1>1. CASE Issue(c)
  <2>1. cl[c].pc = "idle" /\ cl'[c].pc = "claim" /\ cl'[c].role = "none"
    BY IssueFields, <1>1 DEF Issue
  <2>2. QED  BY <2>1 DEF RoleOK
<1>2. CASE ClaimKey(c)
  <2>1. CASE unique[Side(c)] \in {NoKey, cl[c].k}
    <3>1. PICK p \in {"deposit", "ticket"} : Go(c, p) /\ cl[c].pc = "claim"
      BY <1>2, <2>1 DEF ClaimKey
    <3>2. cl'[c].pc = p /\ cl'[c].role = cl[c].role
      BY <3>1, GoFields
    <3>3. QED  BY <3>1, <3>2 DEF RoleOK
  <2>2. CASE unique[Side(c)] \notin {NoKey, cl[c].k}
    <3>1. /\ cl'[c] = [cl[c] EXCEPT !.pc = "work", !.role = "direct"]
          /\ cl[c] \in SlotLocals /\ cl[c].pc = "claim"
      BY <1>2, <2>2 DEF ClaimKey, Turns, SlotTypeOK
    <3>2. cl'[c].pc = "work" /\ cl'[c].role = "direct"
      BY <3>1 DEF SlotLocals
    <3>3. QED  BY <3>1, <3>2 DEF RoleOK
  <2>3. QED  BY <2>1, <2>2
<1>3. CASE Deposit(c)
  <2>1. PICK p \in {"ticket"} : Go(c, p) /\ cl[c].pc = "deposit"
    BY <1>3 DEF Deposit
  <2>2. cl'[c].pc = p /\ cl'[c].role = cl[c].role /\ cl'[c].side = cl[c].side /\ cl'[c].t = cl[c].t
    BY <2>1, GoFields
  <2>3. QED  BY <2>1, <2>2 DEF RoleOK
<1>4. CASE TakeTicket(c)
  BY TicketFields, <1>4 DEF TakeTicket, RoleOK
<1>5. CASE Granted(c)
  <2>1. PICK p \in {"work", "publish", "load"}, r \in {"winner", "handed"} :
          Turns(c, [cl[c] EXCEPT !.role = r, !.pc = p])
    BY <1>5 DEF Granted, Proceed
  <2>2. cl'[c] = [cl[c] EXCEPT !.role = r, !.pc = p] /\ cl[c] \in SlotLocals
    BY <2>1 DEF Turns, SlotTypeOK
  <2>3. cl'[c].pc = p /\ cl'[c].role = r /\ cl'[c].side = cl[c].side /\ cl'[c].t = cl[c].t
    BY <2>2 DEF SlotLocals
  <2>4. cl[c].pc = "turn" /\ cl[c].t = current[cl[c].side]
    BY <1>5 DEF Granted, Side
  <2>5. QED  BY <2>3, <2>4 DEF RoleOK
<1>6. CASE TurnConflict(c)
  <2>1. /\ cl'[c] = [cl[c] EXCEPT !.role = "direct", !.pc = "drain"] /\ cl[c] \in SlotLocals
        /\ cl[c].pc = "turn" /\ cl[c].t = current[cl[c].side]
    BY <1>6 DEF TurnConflict, Turns, SlotTypeOK, Side
  <2>2. cl'[c].pc = "drain" /\ cl'[c].role = "direct" /\ cl'[c].side = cl[c].side /\ cl'[c].t = cl[c].t
    BY <2>1 DEF SlotLocals
  <2>3. QED  BY <2>1, <2>2 DEF RoleOK
<1>7. CASE GetCombiningValue(c)
  <2>1. PICK v : /\ cl'[c] = [cl[c] EXCEPT !.pc = "write", !.v = v]
                 /\ cl[c] \in SlotLocals /\ cl[c].pc = "work"
    BY <1>7 DEF GetCombiningValue, Turns, SlotTypeOK
  <2>2. cl'[c].pc = "write" /\ cl'[c].role = cl[c].role /\ cl'[c].side = cl[c].side /\ cl'[c].t = cl[c].t
    BY <2>1 DEF SlotLocals
  <2>3. QED  BY <2>1, <2>2 DEF RoleOK
<1>8. CASE WriteLeaf(c)
  <2>1. cl[c].pc = "write" /\ cl[c].role \in {"none", "winner", "handed", "direct"}
    BY <1>8 DEF WriteLeaf, SlotTypeOK, SlotLocals
  <2>2. CASE cl[c].role = "direct"
    <3>1. cl'[c].pc = "idle" /\ cl'[c].role = "none"
      BY <1>8, <2>2, DoneFields DEF WriteLeaf
    <3>2. QED  BY <2>1, <2>2, <3>1 DEF RoleOK
  <2>3. CASE cl[c].role # "direct"
    <3>1. cl'[c].pc = "load" /\ cl'[c].role = cl[c].role /\ cl'[c].side = cl[c].side /\ cl'[c].t = cl[c].t
      BY <1>8, <2>3, GoFields DEF WriteLeaf
    <3>2. QED  BY <2>1, <2>3, <3>1 DEF RoleOK
  <2>4. QED  BY <2>2, <2>3
<1>9. CASE ReadLeaf(c)
  <2>1. PICK v : /\ cl'[c] = [cl[c] EXCEPT !.v = v, !.pc = "publish"]
                 /\ cl[c] \in SlotLocals /\ cl[c].pc = "work"
    BY <1>9 DEF ReadLeaf, Turns, SlotTypeOK
  <2>2. cl'[c].pc = "publish" /\ cl'[c].role = cl[c].role /\ cl'[c].side = cl[c].side /\ cl'[c].t = cl[c].t
    BY <2>1 DEF SlotLocals
  <2>3. QED  BY <2>1, <2>2 DEF RoleOK
<1>10. CASE Publish(c)
  <2>1. cl[c].pc = "publish"
    BY <1>10 DEF Publish
  <2>2. CASE cl[c].role = "winner"
    <3>1. cl'[c].pc = "load" /\ cl'[c].role = cl[c].role /\ cl'[c].side = cl[c].side /\ cl'[c].t = cl[c].t
      BY <1>10, <2>2, GoFields DEF Publish
    <3>2. QED  BY <2>1, <2>2, <3>1 DEF RoleOK
  <2>3. CASE cl[c].role = "handed"
    <3>1. cl'[c] = [cl[c] EXCEPT !.v = result, !.pc = "load"] /\ cl[c] \in SlotLocals
      BY <1>10, <2>3 DEF Publish, Turns, SlotTypeOK
    <3>2. cl'[c].pc = "load" /\ cl'[c].role = cl[c].role /\ cl'[c].side = cl[c].side /\ cl'[c].t = cl[c].t
      BY <3>1 DEF SlotLocals
    <3>3. QED  BY <2>1, <2>3, <3>2 DEF RoleOK
  <2>4. CASE cl[c].role \notin {"winner", "handed"}
    <3>1. cl'[c].pc = "idle" /\ cl'[c].role = "none"
      BY <1>10, <2>4, DoneFields DEF Publish
    <3>2. QED  BY <2>1, <2>4, <3>1 DEF RoleOK
  <2>5. QED  BY <2>2, <2>3, <2>4
<1>11. CASE LoadTickets(c)
  <2>1. /\ cl[c].pc = "load" /\ cl'[c].pc \in {"next", "open"} /\ cl'[c].role = cl[c].role
        /\ cl'[c].side = cl[c].side /\ cl'[c].t = cl[c].t
    BY <1>11, LoadFields DEF LoadTickets
  <2>2. QED  BY <2>1 DEF RoleOK
<1>12. CASE OpenWindow(c)
  <2>1. PICK p \in {"next", "own", "other"} : Go(c, p) /\ cl[c].pc = "open"
    BY <1>12 DEF OpenWindow
  <2>2. cl'[c].pc = p /\ cl'[c].role = cl[c].role /\ cl'[c].side = cl[c].side /\ cl'[c].t = cl[c].t
    BY <2>1, GoFields
  <2>3. QED  BY <2>1, <2>2 DEF RoleOK
<1>13. CASE SetOwnWindow(c)
  <2>1. PICK p \in {"next", "other"} : Go(c, p) /\ cl[c].pc = "own"
    BY <1>13 DEF SetOwnWindow
  <2>2. cl'[c].pc = p /\ cl'[c].role = cl[c].role /\ cl'[c].side = cl[c].side /\ cl'[c].t = cl[c].t
    BY <2>1, GoFields
  <2>3. QED  BY <2>1, <2>2 DEF RoleOK
<1>14. CASE SetOtherWindow(c)
  <2>1. PICK p \in {"next", "own"} : Go(c, p) /\ cl[c].pc = "other"
    BY <1>14 DEF SetOtherWindow
  <2>2. cl'[c].pc = p /\ cl'[c].role = cl[c].role /\ cl'[c].side = cl[c].side /\ cl'[c].t = cl[c].t
    BY <2>1, GoFields
  <2>3. QED  BY <2>1, <2>2 DEF RoleOK
<1>15. CASE DecideHandover(c)
  <2>1. PICK p \in {"drain"} : Go(c, p) /\ cl[c].pc = "next"
    BY <1>15 DEF DecideHandover
  <2>2. cl'[c].pc = p /\ cl'[c].role = cl[c].role /\ cl'[c].side = cl[c].side /\ cl'[c].t = cl[c].t
    BY <2>1, GoFields
  <2>3. QED  BY <2>1, <2>2 DEF RoleOK
<1>16. CASE LeaveWindow(c)
  <2>1. PICK p \in {"check", "advance"} : Go(c, p) /\ cl[c].pc = "drain"
    BY <1>16 DEF LeaveWindow
  <2>2. cl'[c].pc = p /\ cl'[c].role = cl[c].role /\ cl'[c].side = cl[c].side /\ cl'[c].t = cl[c].t
    BY <2>1, GoFields
  <2>3. QED  BY <2>1, <2>2 DEF RoleOK
<1>17. CASE CheckWindow(c)
  <2>1. PICK p \in {"clear", "advance"} : Go(c, p) /\ cl[c].pc = "check"
    BY <1>17 DEF CheckWindow
  <2>2. cl'[c].pc = p /\ cl'[c].role = cl[c].role /\ cl'[c].side = cl[c].side /\ cl'[c].t = cl[c].t
    BY <2>1, GoFields
  <2>3. QED  BY <2>1, <2>2 DEF RoleOK
<1>18. CASE CloseWindow(c)
  <2>1. PICK p \in {"advance"} : Go(c, p) /\ cl[c].pc = "clear"
    BY <1>18 DEF CloseWindow
  <2>2. cl'[c].pc = p /\ cl'[c].role = cl[c].role /\ cl'[c].side = cl[c].side /\ cl'[c].t = cl[c].t
    BY <2>1, GoFields
  <2>3. QED  BY <2>1, <2>2 DEF RoleOK
<1>19. CASE Advance(c)
  <2>1. CASE cl[c].role = "direct"
    BY <1>19, <2>1, GoFields DEF Advance, RoleOK
  <2>2. CASE cl[c].role # "direct"
    BY <1>19, <2>2, DoneFields DEF Advance, RoleOK
  <2>3. QED  BY <2>1, <2>2
<1>20. QED
  BY <1>1, <1>2, <1>3, <1>4, <1>5, <1>6, <1>7, <1>8, <1>9, <1>10, <1>11, <1>12, <1>13, <1>14, <1>15, <1>16, <1>17, <1>18, <1>19
  DEF SlotStep, Acquire, AtLeaf, Release

\* A step other than taking a ticket and passing the queue on leaves the client's
\* place in its queue alone; it comes to the head only with its ticket's turn.
QueuedSame(c) ==
  /\ Queued(c)' = Queued(c)
  /\ Queued(c) => cl'[c].side = cl[c].side /\ cl'[c].t = cl[c].t
  /\ Heads(c)' => Heads(c) \/ (cl[c].pc = "turn" /\ cl[c].t = current[cl[c].side])

\* So do all steps but these two.
LEMMA OwnQuiet ==
  ASSUME SlotTypeOK, NEW c \in Clients, SlotStep(c), RoleOK(c), RoleOK(c)',
         ~TakeTicket(c), ~Advance(c)
  PROVE  QueuedSame(c)
<1>1. CASE Issue(c)
  <2>1. cl[c].pc = "idle" /\ cl'[c].pc = "claim" /\ cl'[c].role = "none"
    BY IssueFields, <1>1 DEF Issue
  <2>2. QED  BY <2>1 DEF QueuedSame, Queued, Heads, RoleOK
<1>2. CASE ClaimKey(c)
  <2>1. CASE unique[Side(c)] \in {NoKey, cl[c].k}
    <3>1. PICK p \in {"deposit", "ticket"} : Go(c, p) /\ cl[c].pc = "claim"
      BY <1>2, <2>1 DEF ClaimKey
    <3>2. cl'[c].pc = p /\ cl'[c].role = cl[c].role
      BY <3>1, GoFields
    <3>3. QED  BY <3>1, <3>2 DEF QueuedSame, Queued, Heads, RoleOK
  <2>2. CASE unique[Side(c)] \notin {NoKey, cl[c].k}
    <3>1. /\ cl'[c] = [cl[c] EXCEPT !.pc = "work", !.role = "direct"]
          /\ cl[c] \in SlotLocals /\ cl[c].pc = "claim"
      BY <1>2, <2>2 DEF ClaimKey, Turns, SlotTypeOK
    <3>2. cl'[c].pc = "work" /\ cl'[c].role = "direct"
      BY <3>1 DEF SlotLocals
    <3>3. QED  BY <3>1, <3>2 DEF QueuedSame, Queued, Heads, RoleOK
  <2>3. QED  BY <2>1, <2>2
<1>3. CASE Deposit(c)
  <2>1. PICK p \in {"ticket"} : Go(c, p) /\ cl[c].pc = "deposit"
    BY <1>3 DEF Deposit
  <2>2. cl'[c].pc = p /\ cl'[c].role = cl[c].role /\ cl'[c].side = cl[c].side /\ cl'[c].t = cl[c].t
    BY <2>1, GoFields
  <2>3. QED  BY <2>1, <2>2 DEF QueuedSame, Queued, Heads, RoleOK
<1>4. CASE Granted(c)
  <2>1. PICK p \in {"work", "publish", "load"}, r \in {"winner", "handed"} :
          Turns(c, [cl[c] EXCEPT !.role = r, !.pc = p])
    BY <1>4 DEF Granted, Proceed
  <2>2. cl'[c] = [cl[c] EXCEPT !.role = r, !.pc = p] /\ cl[c] \in SlotLocals
    BY <2>1 DEF Turns, SlotTypeOK
  <2>3. cl'[c].pc = p /\ cl'[c].role = r /\ cl'[c].side = cl[c].side /\ cl'[c].t = cl[c].t
    BY <2>2 DEF SlotLocals
  <2>4. cl[c].pc = "turn" /\ cl[c].t = current[cl[c].side]
    BY <1>4 DEF Granted, Side
  <2>5. QED  BY <2>3, <2>4 DEF QueuedSame, Queued, Heads, RoleOK
<1>5. CASE TurnConflict(c)
  <2>1. /\ cl'[c] = [cl[c] EXCEPT !.role = "direct", !.pc = "drain"] /\ cl[c] \in SlotLocals
        /\ cl[c].pc = "turn" /\ cl[c].t = current[cl[c].side]
    BY <1>5 DEF TurnConflict, Turns, SlotTypeOK, Side
  <2>2. cl'[c].pc = "drain" /\ cl'[c].role = "direct" /\ cl'[c].side = cl[c].side /\ cl'[c].t = cl[c].t
    BY <2>1 DEF SlotLocals
  <2>3. QED  BY <2>1, <2>2 DEF QueuedSame, Queued, Heads, RoleOK
<1>6. CASE GetCombiningValue(c)
  <2>1. PICK v : /\ cl'[c] = [cl[c] EXCEPT !.pc = "write", !.v = v]
                 /\ cl[c] \in SlotLocals /\ cl[c].pc = "work"
    BY <1>6 DEF GetCombiningValue, Turns, SlotTypeOK
  <2>2. cl'[c].pc = "write" /\ cl'[c].role = cl[c].role /\ cl'[c].side = cl[c].side /\ cl'[c].t = cl[c].t
    BY <2>1 DEF SlotLocals
  <2>3. QED  BY <2>1, <2>2 DEF QueuedSame, Queued, Heads, RoleOK
<1>7. CASE WriteLeaf(c)
  <2>1. cl[c].pc = "write" /\ cl[c].role \in {"none", "winner", "handed", "direct"}
    BY <1>7 DEF WriteLeaf, SlotTypeOK, SlotLocals
  <2>2. CASE cl[c].role = "direct"
    <3>1. cl'[c].pc = "idle" /\ cl'[c].role = "none"
      BY <1>7, <2>2, DoneFields DEF WriteLeaf
    <3>2. QED  BY <2>1, <2>2, <3>1 DEF QueuedSame, Queued, Heads, RoleOK
  <2>3. CASE cl[c].role # "direct"
    <3>1. cl'[c].pc = "load" /\ cl'[c].role = cl[c].role /\ cl'[c].side = cl[c].side /\ cl'[c].t = cl[c].t
      BY <1>7, <2>3, GoFields DEF WriteLeaf
    <3>2. QED  BY <2>1, <2>3, <3>1 DEF QueuedSame, Queued, Heads, RoleOK
  <2>4. QED  BY <2>2, <2>3
<1>8. CASE ReadLeaf(c)
  <2>1. PICK v : /\ cl'[c] = [cl[c] EXCEPT !.v = v, !.pc = "publish"]
                 /\ cl[c] \in SlotLocals /\ cl[c].pc = "work"
    BY <1>8 DEF ReadLeaf, Turns, SlotTypeOK
  <2>2. cl'[c].pc = "publish" /\ cl'[c].role = cl[c].role /\ cl'[c].side = cl[c].side /\ cl'[c].t = cl[c].t
    BY <2>1 DEF SlotLocals
  <2>3. QED  BY <2>1, <2>2 DEF QueuedSame, Queued, Heads, RoleOK
<1>9. CASE Publish(c)
  <2>1. cl[c].pc = "publish"
    BY <1>9 DEF Publish
  <2>2. CASE cl[c].role = "winner"
    <3>1. cl'[c].pc = "load" /\ cl'[c].role = cl[c].role /\ cl'[c].side = cl[c].side /\ cl'[c].t = cl[c].t
      BY <1>9, <2>2, GoFields DEF Publish
    <3>2. QED  BY <2>1, <2>2, <3>1 DEF QueuedSame, Queued, Heads, RoleOK
  <2>3. CASE cl[c].role = "handed"
    <3>1. cl'[c] = [cl[c] EXCEPT !.v = result, !.pc = "load"] /\ cl[c] \in SlotLocals
      BY <1>9, <2>3 DEF Publish, Turns, SlotTypeOK
    <3>2. cl'[c].pc = "load" /\ cl'[c].role = cl[c].role /\ cl'[c].side = cl[c].side /\ cl'[c].t = cl[c].t
      BY <3>1 DEF SlotLocals
    <3>3. QED  BY <2>1, <2>3, <3>2 DEF QueuedSame, Queued, Heads, RoleOK
  <2>4. CASE cl[c].role \notin {"winner", "handed"}
    <3>1. cl'[c].pc = "idle" /\ cl'[c].role = "none"
      BY <1>9, <2>4, DoneFields DEF Publish
    <3>2. QED  BY <2>1, <2>4, <3>1 DEF QueuedSame, Queued, Heads, RoleOK
  <2>5. QED  BY <2>2, <2>3, <2>4
<1>10. CASE LoadTickets(c)
  <2>1. /\ cl[c].pc = "load" /\ cl'[c].pc \in {"next", "open"} /\ cl'[c].role = cl[c].role
        /\ cl'[c].side = cl[c].side /\ cl'[c].t = cl[c].t
    BY <1>10, LoadFields DEF LoadTickets
  <2>2. QED  BY <2>1 DEF QueuedSame, Queued, Heads, RoleOK
<1>11. CASE OpenWindow(c)
  <2>1. PICK p \in {"next", "own", "other"} : Go(c, p) /\ cl[c].pc = "open"
    BY <1>11 DEF OpenWindow
  <2>2. cl'[c].pc = p /\ cl'[c].role = cl[c].role /\ cl'[c].side = cl[c].side /\ cl'[c].t = cl[c].t
    BY <2>1, GoFields
  <2>3. QED  BY <2>1, <2>2 DEF QueuedSame, Queued, Heads, RoleOK
<1>12. CASE SetOwnWindow(c)
  <2>1. PICK p \in {"next", "other"} : Go(c, p) /\ cl[c].pc = "own"
    BY <1>12 DEF SetOwnWindow
  <2>2. cl'[c].pc = p /\ cl'[c].role = cl[c].role /\ cl'[c].side = cl[c].side /\ cl'[c].t = cl[c].t
    BY <2>1, GoFields
  <2>3. QED  BY <2>1, <2>2 DEF QueuedSame, Queued, Heads, RoleOK
<1>13. CASE SetOtherWindow(c)
  <2>1. PICK p \in {"next", "own"} : Go(c, p) /\ cl[c].pc = "other"
    BY <1>13 DEF SetOtherWindow
  <2>2. cl'[c].pc = p /\ cl'[c].role = cl[c].role /\ cl'[c].side = cl[c].side /\ cl'[c].t = cl[c].t
    BY <2>1, GoFields
  <2>3. QED  BY <2>1, <2>2 DEF QueuedSame, Queued, Heads, RoleOK
<1>14. CASE DecideHandover(c)
  <2>1. PICK p \in {"drain"} : Go(c, p) /\ cl[c].pc = "next"
    BY <1>14 DEF DecideHandover
  <2>2. cl'[c].pc = p /\ cl'[c].role = cl[c].role /\ cl'[c].side = cl[c].side /\ cl'[c].t = cl[c].t
    BY <2>1, GoFields
  <2>3. QED  BY <2>1, <2>2 DEF QueuedSame, Queued, Heads, RoleOK
<1>15. CASE LeaveWindow(c)
  <2>1. PICK p \in {"check", "advance"} : Go(c, p) /\ cl[c].pc = "drain"
    BY <1>15 DEF LeaveWindow
  <2>2. cl'[c].pc = p /\ cl'[c].role = cl[c].role /\ cl'[c].side = cl[c].side /\ cl'[c].t = cl[c].t
    BY <2>1, GoFields
  <2>3. QED  BY <2>1, <2>2 DEF QueuedSame, Queued, Heads, RoleOK
<1>16. CASE CheckWindow(c)
  <2>1. PICK p \in {"clear", "advance"} : Go(c, p) /\ cl[c].pc = "check"
    BY <1>16 DEF CheckWindow
  <2>2. cl'[c].pc = p /\ cl'[c].role = cl[c].role /\ cl'[c].side = cl[c].side /\ cl'[c].t = cl[c].t
    BY <2>1, GoFields
  <2>3. QED  BY <2>1, <2>2 DEF QueuedSame, Queued, Heads, RoleOK
<1>17. CASE CloseWindow(c)
  <2>1. PICK p \in {"advance"} : Go(c, p) /\ cl[c].pc = "clear"
    BY <1>17 DEF CloseWindow
  <2>2. cl'[c].pc = p /\ cl'[c].role = cl[c].role /\ cl'[c].side = cl[c].side /\ cl'[c].t = cl[c].t
    BY <2>1, GoFields
  <2>3. QED  BY <2>1, <2>2 DEF QueuedSame, Queued, Heads, RoleOK
<1>18. QED
  BY <1>1, <1>2, <1>3, <1>4, <1>5, <1>6, <1>7, <1>8, <1>9, <1>10, <1>11, <1>12, <1>13, <1>14, <1>15, <1>16, <1>17
  DEF SlotStep, Acquire, AtLeaf, Release

\* The clients of a slot fit the width of its tickets.
FewClients == IsFiniteSet(Clients) /\ Cardinality(Clients) <= TicketMod

\* The next ticket, without a remainder.
LEMMA NextTicket ==
  ASSUME NEW x \in 0 .. (TicketMod - 1)
  PROVE  /\ (x + 1) % TicketMod = Plus(x, 1)
         /\ Plus(x, 1) = IF x = TicketMod - 1 THEN 0 ELSE x + 1
<1>1. TicketMod \in Nat /\ TicketMod > 1 /\ x \in Nat
  BY SlotConstants
<1>2. Plus(x, 1) = IF x = TicketMod - 1 THEN 0 ELSE x + 1
  BY <1>1 DEF Plus
<1>3. CASE x = TicketMod - 1
  BY <1>1, <1>2, <1>3
<1>4. CASE x # TicketMod - 1
  BY <1>1, <1>2, <1>4
<1>5. QED  BY <1>2, <1>3, <1>4

\* A queue is finite and has no more clients than there are tickets.
LEMMA QueueSize ==
  ASSUME FewClients, NEW S, S \subseteq Clients
  PROVE  IsFiniteSet(S) /\ Cardinality(S) \in Nat /\ Cardinality(S) <= TicketMod
<1>1. IsFiniteSet(S) /\ Cardinality(S) \in Nat /\ Cardinality(Clients) \in Nat
      /\ Cardinality(S) <= Cardinality(Clients)
  BY FS_Subset, FS_CardinalityType DEF FewClients
<1>2. QED  BY <1>1, SlotConstants DEF FewClients

\* A client that joins at the tail.
LEMMA JoinQueue ==
  ASSUME FewClients, NEW Q, Q \subseteq Clients, NEW c \in Clients, c \notin Q,
         NEW head \in 0 .. (TicketMod - 1), NEW tail \in 0 .. (TicketMod - 1),
         NEW t, NEW u, Consecutive(Q, tail, head, t),
         u[c] = tail, \A d \in Q : u[d] = t[d]
  PROVE  Consecutive(Q \cup {c}, Plus(tail, 1), head, u)
<1>1. PICK n \in Nat : n = Cardinality(Q) /\ n < TicketMod /\ Cardinality(Q \cup {c}) = n + 1
  <2>1. Q \cup {c} \subseteq Clients
    OBVIOUS
  <2>2. IsFiniteSet(Q) /\ Cardinality(Q) \in Nat /\ Cardinality(Q \cup {c}) <= TicketMod
    BY <2>1, QueueSize
  <2>3. Cardinality(Q \cup {c}) = Cardinality(Q) + 1
    BY <2>2, FS_AddElement
  <2>4. QED  BY <2>2, <2>3, SlotConstants
<1>2. tail = Plus(head, n)
  BY <1>1 DEF Consecutive
<1>3. Plus(tail, 1) = Plus(head, n + 1)
  BY <1>1, <1>2, SlotConstants DEF Plus
<1>4. (IF tail >= head THEN tail - head ELSE tail + TicketMod - head) = n
  BY <1>1, <1>2, SlotConstants DEF Plus
<1>5. \A d \in Q : /\ u[d] \in 0 .. (TicketMod - 1)
                   /\ (IF u[d] >= head THEN u[d] - head ELSE u[d] + TicketMod - head) < n
  BY <1>1 DEF Consecutive
<1>6. \A d \in Q : u[d] # tail
  BY <1>1, <1>4, <1>5
<1>7. \A d \in Q \cup {c} : /\ u[d] \in 0 .. (TicketMod - 1)
                            /\ (IF u[d] >= head THEN u[d] - head ELSE u[d] + TicketMod - head) < n + 1
  <2>1. ASSUME NEW d \in Q
        PROVE  (IF u[d] >= head THEN u[d] - head ELSE u[d] + TicketMod - head) < n + 1
    BY <1>1, <1>5, SlotConstants
  <2>2. QED  BY <1>1, <1>4, <1>5, <2>1
<1>8. \A d, e \in Q \cup {c} : u[d] = u[e] => d = e
  BY <1>6 DEF Consecutive
<1>9. QED  BY <1>1, <1>3, <1>7, <1>8 DEF Consecutive

\* A client at the head that leaves.
LEMMA LeaveQueue ==
  ASSUME FewClients, NEW Q, Q \subseteq Clients, NEW c \in Q,
         NEW head \in 0 .. (TicketMod - 1), NEW tail \in 0 .. (TicketMod - 1),
         NEW t, NEW u, Consecutive(Q, tail, head, t),
         t[c] = head, \A d \in Q \ {c} : u[d] = t[d]
  PROVE  Consecutive(Q \ {c}, tail, Plus(head, 1), u)
<1>1. PICK n \in Nat : n = Cardinality(Q) /\ n <= TicketMod /\ n > 0 /\ Cardinality(Q \ {c}) = n - 1
  <2>1. IsFiniteSet(Q) /\ Cardinality(Q) \in Nat /\ Cardinality(Q) <= TicketMod
    BY QueueSize
  <2>2. Cardinality(Q \ {c}) = Cardinality(Q) - 1 /\ Cardinality(Q \ {c}) \in Nat
    BY <2>1, FS_RemoveElement, FS_CardinalityType
  <2>3. QED  BY <2>1, <2>2
<1>2. PICK h : h = Plus(head, 1)
  OBVIOUS
<1>3. h = (IF head = TicketMod - 1 THEN 0 ELSE head + 1) /\ TicketMod \in Nat /\ TicketMod > 1
  BY <1>2, NextTicket, SlotConstants
<1>4. tail = Plus(h, n - 1)
  <2>1. tail = Plus(head, n)
    BY <1>1 DEF Consecutive
  <2>2. QED  BY <1>1, <1>3, <2>1 DEF Plus
<1>5. ASSUME NEW d \in Q \ {c}
      PROVE  /\ u[d] \in 0 .. (TicketMod - 1)
             /\ (IF u[d] >= h THEN u[d] - h ELSE u[d] + TicketMod - h) < n - 1
  <2>1. PICK x \in 0 .. (TicketMod - 1) : x = u[d] /\ x = t[d]
    BY DEF Consecutive
  <2>2. x # head
    BY <2>1 DEF Consecutive
  <2>3. (IF x >= head THEN x - head ELSE x + TicketMod - head) < n
    BY <1>1, <2>1 DEF Consecutive
  <2>4. (IF x >= h THEN x - h ELSE x + TicketMod - h) < n - 1
    BY <1>1, <1>3, <2>2, <2>3
  <2>5. QED  BY <2>1, <2>4
<1>6. \A d, e \in Q \ {c} : u[d] = u[e] => d = e
  BY DEF Consecutive
<1>7. QED  BY <1>1, <1>2, <1>4, <1>5, <1>6 DEF Consecutive

\* Every step keeps the roles.
LEMMA StepRoles ==
  ASSUME SlotTypeInv, \A c \in Clients : RoleOK(c), [SlotNext]_slotVars
  PROVE  \A d \in Clients : RoleOK(d)'
<1>1. CASE UNCHANGED slotVars
  BY <1>1 DEF slotVars, RoleOK
<1>2. ASSUME NEW c \in Clients, SlotStep(c), NEW d \in Clients
      PROVE  RoleOK(d)'
  <2>1. CASE d = c
    BY <1>2, <2>1, OwnRole DEF SlotTypeInv
  <2>2. CASE d # c
    <3>1. KeepsLocals(d)
      BY <1>2, <2>2, OthersKeep DEF SlotTypeInv
    <3>2. QED  BY <3>1 DEF KeepsLocals, RoleOK
  <2>3. QED  BY <2>1, <2>2
<1>3. QED  BY <1>1, <1>2 DEF SlotNext

\* A queue whose clients, tickets and counters a step leaves alone.
LEMMA QueueFrame ==
  ASSUME TicketInv, NEW s \in Sides, Queue(s)' = Queue(s),
         current'[s] = current[s], ticket'[s] = ticket[s],
         \A d \in Queue(s) : cl'[d].t = cl[d].t /\ (Heads(d)' => Heads(d) \/ cl[d].t = current[s])
  PROVE  /\ Consecutive(Queue(s), ticket[s], current[s], Tickets)'
         /\ (\A d \in Queue(s) : Heads(d) => cl[d].t = current[s])'
<1>1. PICK Q, t, u : Q = Queue(s) /\ t = Tickets /\ u = Tickets'
  OBVIOUS
<1>2. Q \subseteq Clients
  BY <1>1 DEF Queue
<1>3. \A d \in Q : u[d] = t[d]
  BY <1>1, <1>2 DEF Tickets
<1>4. Consecutive(Q, ticket[s], current[s], t)
  BY <1>1 DEF TicketInv
<1>5. Consecutive(Q, ticket[s], current[s], u)
  BY <1>3, <1>4 DEF Consecutive
<1>6. Consecutive(Q, ticket'[s], current'[s], u)
  BY <1>5
<1>7. Consecutive(Queue(s), ticket[s], current[s], Tickets)'
  BY <1>1, <1>6 DEF Consecutive, Plus
<1>8. QED
  BY <1>7 DEF TicketInv

\* A step of another client, or of another side, is none of a queue's business.
LEMMA OtherQueue ==
  ASSUME SlotTypeInv, NEW c \in Clients, SlotStep(c),
         NEW s \in Sides,
         Queued(c) => cl[c].side # s, Queued(c)' => cl'[c].side # s
  PROVE  /\ Queue(s)' = Queue(s)
         /\ \A d \in Queue(s) : cl'[d].t = cl[d].t /\ Heads(d)' = Heads(d)
<1>1. \A d \in Clients : d # c => KeepsLocals(d)
  BY OthersKeep DEF SlotTypeInv
<1>2. \A d \in Clients : d # c => Queued(d)' = Queued(d) /\ Heads(d)' = Heads(d)
  BY <1>1 DEF KeepsLocals, Queued, Heads
<1>3. \A d \in Clients : d \in Queue(s) => d # c
  BY DEF Queue
<1>4. \A d \in Clients : d \in Queue(s)' => d # c
  BY DEF Queue
<1>5. \A d \in Clients : d # c => (d \in Queue(s)' <=> d \in Queue(s))
  BY <1>1, <1>2 DEF Queue, KeepsLocals
<1>6. Queue(s)' = Queue(s)
  BY <1>3, <1>4, <1>5 DEF Queue
<1>7. QED
  BY <1>1, <1>2, <1>3, <1>6 DEF Queue, KeepsLocals

\* Taking a ticket: the client joins its queue.
LEMMA TakesTicket ==
  ASSUME FewClients, SlotTypeInv, QueueInv, NEW c \in Clients, TakeTicket(c)
  PROVE  TicketInv'
<1>1. SlotStep(c) /\ cl[c].pc = "ticket" /\ SlotTypeOK
  BY DEF TakeTicket, SlotStep, Acquire, SlotTypeInv
<1>2. PICK s \in Sides : s = cl[c].side
  BY DEF SlotTypeInv, SlotTypeOK, SlotLocals
<1>3. /\ cl'[c].pc = "turn" /\ cl'[c].side = s /\ cl'[c].t = ticket[s]
      /\ cl'[c].role = cl[c].role /\ cl[c].role = "none"
  BY <1>1, <1>2, TicketFields DEF QueueInv, RoleOK
<1>4. ~Queued(c) /\ Queued(c)' /\ ~Heads(c)'
  BY <1>1, <1>3 DEF Queued, Heads
<1>5. \A d \in Clients : d # c => KeepsLocals(d)
  BY <1>1, OthersKeep
<1>6. \A d \in Clients : d # c => Queued(d)' = Queued(d) /\ Heads(d)' = Heads(d)
  BY <1>5 DEF KeepsLocals, Queued, Heads
<1>7. /\ current' = current /\ ticket' = [ticket EXCEPT ![s] = (ticket[s] + 1) % TicketMod]
  BY <1>2 DEF TakeTicket, Side
<1>8. ticket'[s] = Plus(ticket[s], 1) /\ \A o \in Sides : o # s => ticket'[o] = ticket[o]
  BY <1>1, <1>7, NextTicket DEF SlotTypeOK
<1>9. PICK Q, t, u : Q = Queue(s) /\ t = Tickets /\ u = Tickets'
  OBVIOUS
<1>10. Q \subseteq Clients /\ c \notin Q /\ Queue(s)' = Q \cup {c}
  <2>1. \A d \in Clients : d \in Queue(s)' <=> (d \in Queue(s) \/ d = c)
    BY <1>3, <1>4, <1>5, <1>6 DEF Queue, KeepsLocals
  <2>2. QED  BY <1>4, <1>9, <2>1 DEF Queue
<1>11. u[c] = ticket[s] /\ \A d \in Q : u[d] = t[d]
  BY <1>3, <1>5, <1>9, <1>10 DEF Tickets, KeepsLocals
<1>12. Consecutive(Q, ticket[s], current[s], t)
  BY <1>9 DEF QueueInv, TicketInv
<1>13. ticket[s] \in 0 .. (TicketMod - 1) /\ current[s] \in 0 .. (TicketMod - 1)
  BY <1>1 DEF SlotTypeOK
<1>14. Consecutive(Q \cup {c}, Plus(ticket[s], 1), current[s], u)
  BY <1>10, <1>11, <1>12, <1>13, JoinQueue
<1>15. Consecutive(Queue(s), ticket[s], current[s], Tickets)'
  BY <1>7, <1>8, <1>9, <1>10, <1>14 DEF Consecutive, Plus
<1>16. (\A d \in Queue(s) : Heads(d) => cl[d].t = current[s])'
  <2>1. ASSUME NEW d \in Queue(s)', Heads(d)'
        PROVE  cl'[d].t = current'[s]
    <3>1. d # c /\ d \in Queue(s) /\ Heads(d) /\ d \in Clients
      BY <1>4, <1>6, <1>9, <1>10, <2>1
    <3>2. cl'[d].t = cl[d].t /\ current' = current
      BY <1>5, <1>7, <3>1 DEF KeepsLocals
    <3>3. QED  BY <3>1, <3>2 DEF QueueInv, TicketInv
  <2>2. QED  BY <2>1
<1>17. ASSUME NEW o \in Sides, o # s
       PROVE  /\ Consecutive(Queue(o), ticket[o], current[o], Tickets)'
              /\ (\A d \in Queue(o) : Heads(d) => cl[d].t = current[o])'
  <2>1. /\ Queue(o)' = Queue(o)
        /\ \A d \in Queue(o) : cl'[d].t = cl[d].t /\ Heads(d)' = Heads(d)
    BY <1>1, <1>3, <1>4, <1>17, OtherQueue
  <2>2. QED  BY <1>7, <1>8, <1>17, <2>1, QueueFrame DEF QueueInv
<1>18. QED
  BY <1>15, <1>16, <1>17 DEF TicketInv

\* Passing the queue on: its head leaves.
LEMMA PassesOn ==
  ASSUME FewClients, SlotTypeInv, QueueInv, NEW c \in Clients, Advance(c)
  PROVE  TicketInv'
<1>1. SlotStep(c) /\ cl[c].pc = "advance" /\ SlotTypeOK
  BY DEF Advance, SlotStep, Release, SlotTypeInv
<1>2. PICK s \in Sides : s = cl[c].side
  BY DEF SlotTypeInv, SlotTypeOK, SlotLocals
<1>3. Queued(c) /\ Heads(c) /\ ~Queued(c)'
  <2>1. Heads(c) /\ Queued(c)
    BY <1>1 DEF Queued, Heads
  <2>2. CASE cl[c].role = "direct"
    BY <1>1, <2>2, GoFields DEF Advance, Queued, Heads
  <2>3. CASE cl[c].role # "direct"
    BY <1>1, <2>3, DoneFields DEF Advance, Queued, Heads
  <2>4. QED  BY <2>1, <2>2, <2>3
<1>4. \A d \in Clients : d # c => KeepsLocals(d)
  BY <1>1, OthersKeep
<1>5. \A d \in Clients : d # c => Queued(d)' = Queued(d) /\ Heads(d)' = Heads(d)
  BY <1>4 DEF KeepsLocals, Queued, Heads
<1>6. ticket' = ticket /\ current' = [current EXCEPT ![s] = (current[s] + 1) % TicketMod]
  BY <1>2 DEF Advance, Side
<1>7. current'[s] = Plus(current[s], 1) /\ \A o \in Sides : o # s => current'[o] = current[o]
  BY <1>1, <1>6, NextTicket DEF SlotTypeOK
<1>8. PICK Q, t, u : Q = Queue(s) /\ t = Tickets /\ u = Tickets'
  OBVIOUS
<1>9. Q \subseteq Clients /\ c \in Q /\ Queue(s)' = Q \ {c}
  <2>1. \A d \in Clients : d \in Queue(s)' <=> (d \in Queue(s) /\ d # c)
    BY <1>3, <1>4, <1>5 DEF Queue, KeepsLocals
  <2>2. QED  BY <1>2, <1>3, <1>8, <2>1 DEF Queue
<1>10. cl[c].t = current[s]
  BY <1>3, <1>8, <1>9 DEF QueueInv, TicketInv
<1>11. t[c] = current[s] /\ \A d \in Q \ {c} : u[d] = t[d]
  BY <1>4, <1>8, <1>9, <1>10 DEF Tickets, KeepsLocals
<1>12. Consecutive(Q, ticket[s], current[s], t)
  BY <1>8 DEF QueueInv, TicketInv
<1>13. ticket[s] \in 0 .. (TicketMod - 1) /\ current[s] \in 0 .. (TicketMod - 1)
  BY <1>1 DEF SlotTypeOK
<1>14. Consecutive(Q \ {c}, ticket[s], Plus(current[s], 1), u)
  BY <1>9, <1>11, <1>12, <1>13, LeaveQueue
<1>15. Consecutive(Queue(s), ticket[s], current[s], Tickets)'
  <2>1. Consecutive(Q \ {c}, ticket'[s], current'[s], u)
    BY <1>6, <1>7, <1>14
  <2>2. QED  BY <1>8, <1>9, <2>1 DEF Consecutive, Plus
<1>16. (\A d \in Queue(s) : Heads(d) => cl[d].t = current[s])'
  <2>1. ASSUME NEW d \in Queue(s)'
        PROVE  ~Heads(d)'
    <3>1. d # c /\ d \in Queue(s) /\ d \in Clients
      BY <1>8, <1>9
    <3>2. ~Heads(d)
      <4>1. t[d] # t[c]
        BY <1>8, <1>9, <1>12, <3>1 DEF Consecutive
      <4>2. cl[d].t # current[s]
        BY <1>8, <1>9, <1>10, <3>1, <4>1 DEF Tickets
      <4>3. QED  BY <3>1, <4>2 DEF QueueInv, TicketInv
    <3>3. QED  BY <1>5, <3>1, <3>2
  <2>2. QED  BY <2>1
<1>17. ASSUME NEW o \in Sides, o # s
       PROVE  /\ Consecutive(Queue(o), ticket[o], current[o], Tickets)'
              /\ (\A d \in Queue(o) : Heads(d) => cl[d].t = current[o])'
  <2>1. /\ Queue(o)' = Queue(o)
        /\ \A d \in Queue(o) : cl'[d].t = cl[d].t /\ Heads(d)' = Heads(d)
    BY <1>1, <1>2, <1>3, <1>17, OtherQueue
  <2>2. QED  BY <1>6, <1>7, <1>17, <2>1, QueueFrame DEF QueueInv
<1>18. QED
  BY <1>15, <1>16, <1>17 DEF TicketInv

\* Every other step.
LEMMA KeepsQueue ==
  ASSUME SlotTypeInv, QueueInv, NEW c \in Clients, SlotStep(c),
         ~TakeTicket(c), ~Advance(c), RoleOK(c)'
  PROVE  TicketInv'
<1>1. QueuedSame(c)
  BY OwnQuiet DEF SlotTypeInv, QueueInv
<1>2. current' = current /\ ticket' = ticket
  BY DEF SlotStep, Acquire, AtLeaf, Release, Issue, ClaimKey, Deposit, Granted, Proceed,
         TurnConflict, GetCombiningValue, WriteLeaf, ReadLeaf, Publish, LoadTickets,
         OpenWindow, SetOwnWindow, SetOtherWindow, DecideHandover, LeaveWindow,
         CheckWindow, CloseWindow
<1>3. \A d \in Clients : d # c => KeepsLocals(d)
  BY OthersKeep DEF SlotTypeInv
<1>4. \A d \in Clients : d # c => Queued(d)' = Queued(d) /\ Heads(d)' = Heads(d)
  BY <1>3 DEF KeepsLocals, Queued, Heads
<1>5. ASSUME NEW s \in Sides
      PROVE  /\ Consecutive(Queue(s), ticket[s], current[s], Tickets)'
             /\ (\A d \in Queue(s) : Heads(d) => cl[d].t = current[s])'
  <2>1. Queue(s)' = Queue(s)
    <3>1. \A d \in Clients : d \in Queue(s)' <=> d \in Queue(s)
      BY <1>1, <1>3, <1>4 DEF Queue, KeepsLocals, QueuedSame
    <3>2. QED  BY <3>1 DEF Queue
  <2>2. \A d \in Queue(s) : cl'[d].t = cl[d].t /\ (Heads(d)' => Heads(d) \/ cl[d].t = current[s])
    BY <1>1, <1>3, <1>4 DEF Queue, KeepsLocals, QueuedSame
  <2>3. QED  BY <1>2, <2>1, <2>2, QueueFrame DEF QueueInv
<1>6. QED  BY <1>5 DEF TicketInv

\* Every step keeps the queues.
LEMMA StepQueue ==
  ASSUME FewClients, SlotTypeInv, QueueInv, [SlotNext]_slotVars
  PROVE  QueueInv'
<1>1. \A d \in Clients : RoleOK(d)'
  BY StepRoles DEF QueueInv
<1>2. CASE UNCHANGED slotVars
  <2>1. cl' = cl /\ current' = current /\ ticket' = ticket
    BY <1>2 DEF slotVars
  <2>2. \A s \in Sides : Queue(s)' = Queue(s) /\ \A d \in Queue(s) : Heads(d)' = Heads(d)
    BY <2>1 DEF Queue, Queued, Heads
  <2>3. TicketInv'
    BY <2>1, <2>2, QueueFrame DEF QueueInv, TicketInv
  <2>4. QED  BY <1>1, <2>3 DEF QueueInv
<1>3. ASSUME NEW c \in Clients, SlotStep(c)
      PROVE  TicketInv'
  BY <1>1, <1>3, TakesTicket, PassesOn, KeepsQueue
<1>4. QED  BY <1>1, <1>2, <1>3 DEF SlotNext, QueueInv

\* The queues are empty in the initial state.
LEMMA InitQueue ==
  ASSUME SlotInit
  PROVE  QueueInv
<1>1. \A c \in Clients : cl[c].pc = "idle" /\ cl[c].role = "none"
  BY DEF SlotInit, IdleSlot
<1>2. \A s \in Sides : Queue(s) = {} /\ current[s] = 0 /\ ticket[s] = 0
  BY <1>1 DEF SlotInit, Queue, Queued, Heads
<1>3. \A s \in Sides : Consecutive(Queue(s), ticket[s], current[s], Tickets)
  <2>1. PICK t : t = Tickets
    OBVIOUS
  <2>2. Consecutive({}, 0, 0, t)
    BY FS_EmptySet, SlotConstants DEF Consecutive, Plus
  <2>3. QED  BY <1>2, <2>1, <2>2
<1>4. QED
  BY <1>1, <1>2, <1>3 DEF QueueInv, RoleOK, TicketInv

\* The queues make the heads exclusive.
LEMMA QueueExclusive ==
  ASSUME SlotTypeOK, QueueInv
  PROVE  SlotExclusive
<1>1. ASSUME NEW c \in Clients, Heads(c)
      PROVE  cl[c].side \in Sides /\ c \in Queue(cl[c].side) /\ cl[c].t = current[cl[c].side]
  BY <1>1 DEF SlotTypeOK, SlotLocals, Queue, Queued, QueueInv, TicketInv
<1>2. ASSUME NEW c \in Clients, NEW d \in Clients, Heads(c), Heads(d), Side(c) = Side(d)
      PROVE  c = d
  <2>1. PICK s \in Sides : s = cl[c].side /\ s = cl[d].side
    BY <1>1, <1>2 DEF Side
  <2>2. c \in Queue(s) /\ d \in Queue(s) /\ Tickets[c] = Tickets[d]
    BY <1>1, <1>2, <2>1 DEF Tickets
  <2>3. QED  BY <2>2 DEF QueueInv, TicketInv, Consecutive
<1>3. QED  BY <1>1, <1>2 DEF SlotExclusive, Side

\* No two clients ever work on the same side of a slot, and the one that does
\* has the ticket being served, through every wrap of the uint8_t counters, as
\* long as no more coroutines share the slot than the counters have values.
THEOREM SlotIsExclusive ==
  ASSUME FewClients
  PROVE  SlotSpec => []SlotExclusive
<1>1. SlotInit => SlotTypeInv /\ QueueInv
  BY InitSlotType, InitQueue
<1>2. SlotTypeInv /\ QueueInv /\ [SlotNext]_slotVars => (SlotTypeInv /\ QueueInv)'
  BY StepSlotTypeInv, StepQueue
<1>3. SlotTypeInv /\ QueueInv => SlotExclusive
  BY QueueExclusive DEF SlotTypeInv
<1>4. QED  BY <1>1, <1>2, <1>3, PTL DEF SlotSpec

-----------------------------------------------------------------------------
(* Read delegation *)

\* The part of the invariant that a step of client c itself has to restore.
Delegates(c) ==
  /\ handover["r"] => Served(unique["r"])
  /\ Holding(c) => HolderOK(c)
  /\ cl[c].side = "r" /\ cl[c].v # <<>> => cl[c].v[1] = cl[c].k

\* Nothing is served for no key.
LEMMA ServedKey ==
  ASSUME NEW k, Served(k)
  PROVE  k \in SlotKeys
  BY DEF Served, SlotVals

\* A step that leaves handover, key and result of the slot alone, and its client
\* with its key and value.
LEMMA DelegatesFrame ==
  ASSUME NEW c \in Clients, Delegates(c), UNCHANGED <<handover, unique, result>>,
         cl'[c].side = cl[c].side, cl'[c].k = cl[c].k, cl'[c].v = cl[c].v,
         Holding(c)' => /\ Holding(c) /\ cl'[c].role = cl[c].role
                        /\ cl[c].pc \in {"load", "open", "own", "other", "next"}
                           \/ cl[c].side = "w"
                        /\ cl'[c].pc # "publish"
  PROVE  Delegates(c)'
  BY DEF Delegates, HolderOK, Served

\* Every step restores its client's part.
LEMMA OwnDelegates ==
  ASSUME SlotTypeOK, NEW c \in Clients, SlotStep(c), LocalsOK(c), RoleOK(c),
         WritesOwnKey, Delegates(c)
  PROVE  Delegates(c)'
<1>1. CASE Issue(c)
  <2>1. /\ cl'[c].role = "none" /\ UNCHANGED <<handover, unique, result>>
        /\ cl'[c].side = "r" => cl'[c].v = <<>>
    BY IssueFields, <1>1 DEF Issue
  <2>2. QED  BY <2>1 DEF Delegates, Holding, Served
<1>2. CASE ClaimKey(c)
  <2>1. cl[c].pc = "claim" /\ cl[c].role = "none" /\ UNCHANGED <<handover, result>>
    BY <1>2 DEF ClaimKey, RoleOK
  <2>2. /\ cl'[c].role \in {"none", "direct"} /\ cl'[c].side = cl[c].side
        /\ cl'[c].k = cl[c].k /\ cl'[c].v = cl[c].v
    <3>1. CASE unique[Side(c)] \in {NoKey, cl[c].k}
      <4>1. PICK p : Go(c, p)
        BY <1>2, <3>1 DEF ClaimKey
      <4>2. QED  BY <2>1, <4>1, GoFields
    <3>2. CASE unique[Side(c)] \notin {NoKey, cl[c].k}
      <4>1. cl'[c] = [cl[c] EXCEPT !.pc = "work", !.role = "direct"] /\ cl[c] \in SlotLocals
        BY <1>2, <3>2 DEF ClaimKey, Turns, SlotTypeOK
      <4>2. QED  BY <4>1 DEF SlotLocals
    <3>3. QED  BY <3>1, <3>2
  <2>3. unique'["r"] = unique["r"] \/ unique["r"] = NoKey
    BY <1>2 DEF ClaimKey, SlotTypeOK, Sides, Side
  <2>4. handover["r"] => unique["r"] \in SlotKeys
    BY ServedKey DEF Delegates
  <2>5. unique["r"] # NoKey \/ ~handover["r"]
    BY <2>4, SlotConstants
  <2>6. QED  BY <2>1, <2>2, <2>3, <2>5 DEF Delegates, Holding, Served
<1>3. CASE Deposit(c)
  <2>1. PICK p \in {"ticket"} :
          Go(c, p) /\ cl[c].pc = "deposit" /\ UNCHANGED <<handover, unique, result>>
    BY <1>3 DEF Deposit
  <2>2. /\ cl'[c].pc = p /\ cl'[c].role = cl[c].role /\ cl'[c].side = cl[c].side
        /\ cl'[c].k = cl[c].k /\ cl'[c].v = cl[c].v
    BY <2>1, GoFields
  <2>3. Holding(c)' => Holding(c) /\ cl[c].pc \in {"load", "open", "own", "other", "next"}
    BY <2>1, <2>2 DEF Holding, RoleOK
  <2>4. QED  BY <2>1, <2>2, <2>3, DelegatesFrame
<1>4. CASE TakeTicket(c)
  <2>1. cl[c].role = "none" /\ UNCHANGED <<handover, unique, result>>
    BY <1>4 DEF TakeTicket, RoleOK
  <2>2. /\ cl'[c].role = cl[c].role /\ cl'[c].side = cl[c].side
        /\ cl'[c].k = cl[c].k /\ cl'[c].v = cl[c].v
    BY TicketFields, <1>4
  <2>3. QED  BY <2>1, <2>2, DelegatesFrame DEF Holding
<1>5. CASE Granted(c)
  <2>1. PICK h \in BOOLEAN : /\ Proceed(c, h) /\ (h => handover[cl[c].side])
                             /\ unique[cl[c].side] = cl[c].k
    BY <1>5 DEF Granted, Side, SlotTypeOK
  <2>2. PICK p, r : /\ cl'[c] = [cl[c] EXCEPT !.role = r, !.pc = p] /\ cl[c] \in SlotLocals
                    /\ r = (IF h THEN "handed" ELSE "winner")
                    /\ ~h => p = "work"
    BY <2>1 DEF Proceed, Turns, SlotTypeOK
  <2>3. /\ cl'[c].pc = p /\ cl'[c].role = r /\ cl'[c].side = cl[c].side
        /\ cl'[c].k = cl[c].k /\ cl'[c].v = cl[c].v /\ cl[c].side \in Sides
    BY <2>2 DEF SlotLocals
  <2>4. /\ handover' = [handover EXCEPT ![cl[c].side] = h] /\ UNCHANGED <<unique, result>>
    BY <2>1 DEF Proceed, Side
  <2>5. handover'["r"] => handover["r"]
    BY <2>1, <2>3, <2>4 DEF SlotTypeOK, Sides
  <2>6. cl[c].side = "r" /\ h => Served(cl[c].k)
    BY <2>1 DEF Delegates
  <2>7. HolderOK(c)'
    BY <2>1, <2>2, <2>3, <2>4, <2>6 DEF HolderOK, Served
  <2>8. QED  BY <2>3, <2>4, <2>5, <2>7 DEF Delegates, Served
<1>6. CASE TurnConflict(c)
  <2>1. /\ cl'[c] = [cl[c] EXCEPT !.role = "direct", !.pc = "drain"] /\ cl[c] \in SlotLocals
        /\ UNCHANGED <<handover, unique, result>>
    BY <1>6 DEF TurnConflict, Turns, SlotTypeOK
  <2>2. /\ cl'[c].role = "direct" /\ cl'[c].side = cl[c].side
        /\ cl'[c].k = cl[c].k /\ cl'[c].v = cl[c].v
    BY <2>1 DEF SlotLocals
  <2>3. QED  BY <2>1, <2>2, DelegatesFrame DEF Holding
<1>7. CASE GetCombiningValue(c)
  <2>1. PICK v : /\ cl'[c] = [cl[c] EXCEPT !.pc = "write", !.v = v] /\ cl[c] \in SlotLocals
                 /\ cl[c].pc = "work" /\ cl[c].side = "w" /\ UNCHANGED <<handover, unique, result>>
    BY <1>7 DEF GetCombiningValue, Turns, SlotTypeOK, Side
  <2>2. /\ cl'[c].pc = "write" /\ cl'[c].role = cl[c].role /\ cl'[c].side = "w"
        /\ cl'[c].k = cl[c].k
    BY <2>1 DEF SlotLocals
  <2>3. QED  BY <2>1, <2>2 DEF Delegates, Holding, HolderOK, Served
<1>8. CASE WriteLeaf(c)
  <2>1. cl[c].pc = "write" /\ cl[c].side = "w" /\ UNCHANGED <<handover, unique, result>>
    BY <1>8 DEF WriteLeaf, LocalsOK
  <2>2. CASE cl[c].role = "direct"
    BY <1>8, <2>1, <2>2, DoneFields DEF WriteLeaf, Delegates, Holding, Served
  <2>3. CASE cl[c].role # "direct"
    <3>1. /\ cl'[c].pc = "load" /\ cl'[c].role = cl[c].role /\ cl'[c].side = cl[c].side
          /\ cl'[c].k = cl[c].k /\ cl'[c].v = cl[c].v
      BY <1>8, <2>3, GoFields DEF WriteLeaf
    <3>2. Holding(c)' => Holding(c)
      BY <2>1, <3>1 DEF Holding
    <3>3. QED  BY <2>1, <3>1, <3>2, DelegatesFrame
  <2>4. QED  BY <2>2, <2>3
<1>9. CASE ReadLeaf(c)
  <2>1. /\ cl'[c] = [cl[c] EXCEPT !.v = store[cl[c].k], !.pc = "publish"] /\ cl[c] \in SlotLocals
        /\ cl[c].pc = "work" /\ cl[c].side = "r" /\ UNCHANGED <<handover, unique, result>>
    BY <1>9 DEF ReadLeaf, Turns, SlotTypeOK, Side
  <2>2. /\ cl'[c].pc = "publish" /\ cl'[c].role = cl[c].role /\ cl'[c].side = "r"
        /\ cl'[c].k = cl[c].k /\ cl'[c].v = store[cl[c].k]
    BY <2>1 DEF SlotLocals
  <2>3. store[cl[c].k] \in SlotVals /\ store[cl[c].k][1] = cl[c].k
    BY <2>1 DEF LocalsOK, SlotTypeOK, WritesOwnKey
  <2>4. Holding(c)' => Holding(c)
    BY <2>1, <2>2 DEF Holding
  <2>5. Holding(c)' => HolderOK(c)'
    BY <2>1, <2>2, <2>3, <2>4 DEF Delegates, Holding, HolderOK, Served
  <2>6. QED  BY <2>1, <2>2, <2>3, <2>5 DEF Delegates, Served
<1>10. CASE Publish(c)
  <2>1. cl[c].pc = "publish" /\ cl[c].side = "r" /\ UNCHANGED <<handover, unique>>
    BY <1>10 DEF Publish, LocalsOK
  <2>2. CASE cl[c].role = "winner"
    <3>1. /\ cl'[c].pc = "load" /\ cl'[c].role = "winner" /\ cl'[c].side = "r"
          /\ cl'[c].k = cl[c].k /\ cl'[c].v = cl[c].v /\ result' = cl[c].v
      BY <1>10, <2>1, <2>2, GoFields DEF Publish
    <3>2. cl[c].v \in SlotVals /\ cl[c].v[1] = cl[c].k /\ unique["r"] = cl[c].k
      BY <2>1, <2>2 DEF Delegates, Holding, HolderOK
    <3>3. QED  BY <2>1, <3>1, <3>2 DEF Delegates, HolderOK, Served
  <2>3. CASE cl[c].role = "handed"
    <3>1. cl'[c] = [cl[c] EXCEPT !.v = result, !.pc = "load"] /\ cl[c] \in SlotLocals
          /\ result' = result
      BY <1>10, <2>3 DEF Publish, Turns, SlotTypeOK
    <3>2. /\ cl'[c].pc = "load" /\ cl'[c].role = "handed" /\ cl'[c].side = "r"
          /\ cl'[c].k = cl[c].k /\ cl'[c].v = result
      BY <2>1, <2>3, <3>1 DEF SlotLocals
    <3>3. Served(cl[c].k) /\ unique["r"] = cl[c].k
      BY <2>1, <2>3 DEF Delegates, Holding, HolderOK
    <3>4. QED  BY <2>1, <3>1, <3>2, <3>3 DEF Delegates, HolderOK, Served
  <2>4. CASE cl[c].role \notin {"winner", "handed"}
    <3>1. cl'[c].role = "none" /\ cl'[c].v = <<>> /\ result' = result
      BY <1>10, <2>4, DoneFields DEF Publish
    <3>2. QED  BY <2>1, <3>1 DEF Delegates, Holding, Served
  <2>5. QED  BY <2>2, <2>3, <2>4
<1>11. CASE LoadTickets(c)
  <2>1. /\ cl[c].pc = "load" /\ cl'[c].pc \in {"next", "open"} /\ cl'[c].role = cl[c].role
        /\ cl'[c].side = cl[c].side /\ cl'[c].k = cl[c].k /\ cl'[c].v = cl[c].v
        /\ UNCHANGED <<handover, unique, result>>
    BY <1>11, LoadFields DEF LoadTickets
  <2>2. Holding(c)
    BY <2>1 DEF Holding, RoleOK
  <2>3. QED  BY <2>1, <2>2, DelegatesFrame
<1>12. CASE OpenWindow(c)
  <2>1. PICK p \in {"next", "own", "other"} :
          Go(c, p) /\ cl[c].pc = "open" /\ UNCHANGED <<handover, unique, result>>
    BY <1>12 DEF OpenWindow
  <2>2. /\ cl'[c].pc = p /\ cl'[c].role = cl[c].role /\ cl'[c].side = cl[c].side
        /\ cl'[c].k = cl[c].k /\ cl'[c].v = cl[c].v
    BY <2>1, GoFields
  <2>3. Holding(c)' => Holding(c) /\ cl[c].pc \in {"load", "open", "own", "other", "next"}
    BY <2>1, <2>2 DEF Holding, RoleOK
  <2>4. QED  BY <2>1, <2>2, <2>3, DelegatesFrame
<1>13. CASE SetOwnWindow(c)
  <2>1. PICK p \in {"next", "other"} :
          Go(c, p) /\ cl[c].pc = "own" /\ UNCHANGED <<handover, unique, result>>
    BY <1>13 DEF SetOwnWindow
  <2>2. /\ cl'[c].pc = p /\ cl'[c].role = cl[c].role /\ cl'[c].side = cl[c].side
        /\ cl'[c].k = cl[c].k /\ cl'[c].v = cl[c].v
    BY <2>1, GoFields
  <2>3. Holding(c)' => Holding(c) /\ cl[c].pc \in {"load", "open", "own", "other", "next"}
    BY <2>1, <2>2 DEF Holding, RoleOK
  <2>4. QED  BY <2>1, <2>2, <2>3, DelegatesFrame
<1>14. CASE SetOtherWindow(c)
  <2>1. PICK p \in {"next", "own"} :
          Go(c, p) /\ cl[c].pc = "other" /\ UNCHANGED <<handover, unique, result>>
    BY <1>14 DEF SetOtherWindow
  <2>2. /\ cl'[c].pc = p /\ cl'[c].role = cl[c].role /\ cl'[c].side = cl[c].side
        /\ cl'[c].k = cl[c].k /\ cl'[c].v = cl[c].v
    BY <2>1, GoFields
  <2>3. Holding(c)' => Holding(c) /\ cl[c].pc \in {"load", "open", "own", "other", "next"}
    BY <2>1, <2>2 DEF Holding, RoleOK
  <2>4. QED  BY <2>1, <2>2, <2>3, DelegatesFrame
<1>15. CASE DecideHandover(c)
  <2>1. PICK h \in BOOLEAN : /\ handover' = [handover EXCEPT ![cl[c].side] = h]
                             /\ unique' = [unique EXCEPT ![cl[c].side] = IF h THEN @ ELSE NoKey]
    BY <1>15 DEF DecideHandover, Side
  <2>2. Go(c, "drain") /\ cl[c].pc = "next" /\ result' = result
    BY <1>15 DEF DecideHandover
  <2>3. /\ cl'[c].pc = "drain" /\ cl'[c].side = cl[c].side
        /\ cl'[c].k = cl[c].k /\ cl'[c].v = cl[c].v
    BY <2>2, GoFields
  <2>4. Holding(c) /\ cl[c].side \in Sides
    BY <2>2 DEF Holding, RoleOK, SlotTypeOK, SlotLocals
  <2>5. handover'["r"] => Served(unique'["r"])
    <3>1. CASE cl[c].side = "r"
      <4>1. unique["r"] = cl[c].k /\ Served(cl[c].k)
        BY <2>2, <2>4, <3>1 DEF Delegates, HolderOK
      <4>2. QED  BY <2>1, <3>1, <4>1 DEF SlotTypeOK, Sides
    <3>2. CASE cl[c].side = "w"
      BY <2>1, <3>2 DEF Delegates, SlotTypeOK, Sides
    <3>3. QED  BY <2>4, <3>1, <3>2 DEF Sides
  <2>6. QED  BY <2>2, <2>3, <2>5 DEF Delegates, Holding, Served
<1>16. CASE LeaveWindow(c)
  <2>1. PICK p \in {"check", "advance"} :
          Go(c, p) /\ cl[c].pc = "drain" /\ UNCHANGED <<handover, unique, result>>
    BY <1>16 DEF LeaveWindow
  <2>2. /\ cl'[c].pc = p /\ cl'[c].role = cl[c].role /\ cl'[c].side = cl[c].side
        /\ cl'[c].k = cl[c].k /\ cl'[c].v = cl[c].v
    BY <2>1, GoFields
  <2>3. Holding(c)' => Holding(c) /\ cl[c].pc \in {"load", "open", "own", "other", "next"}
    BY <2>1, <2>2 DEF Holding, RoleOK
  <2>4. QED  BY <2>1, <2>2, <2>3, DelegatesFrame
<1>17. CASE CheckWindow(c)
  <2>1. PICK p \in {"clear", "advance"} :
          Go(c, p) /\ cl[c].pc = "check" /\ UNCHANGED <<handover, unique, result>>
    BY <1>17 DEF CheckWindow
  <2>2. /\ cl'[c].pc = p /\ cl'[c].role = cl[c].role /\ cl'[c].side = cl[c].side
        /\ cl'[c].k = cl[c].k /\ cl'[c].v = cl[c].v
    BY <2>1, GoFields
  <2>3. Holding(c)' => Holding(c) /\ cl[c].pc \in {"load", "open", "own", "other", "next"}
    BY <2>1, <2>2 DEF Holding, RoleOK
  <2>4. QED  BY <2>1, <2>2, <2>3, DelegatesFrame
<1>18. CASE CloseWindow(c)
  <2>1. PICK p \in {"advance"} :
          Go(c, p) /\ cl[c].pc = "clear" /\ UNCHANGED <<handover, unique, result>>
    BY <1>18 DEF CloseWindow
  <2>2. /\ cl'[c].pc = p /\ cl'[c].role = cl[c].role /\ cl'[c].side = cl[c].side
        /\ cl'[c].k = cl[c].k /\ cl'[c].v = cl[c].v
    BY <2>1, GoFields
  <2>3. Holding(c)' => Holding(c) /\ cl[c].pc \in {"load", "open", "own", "other", "next"}
    BY <2>1, <2>2 DEF Holding, RoleOK
  <2>4. QED  BY <2>1, <2>2, <2>3, DelegatesFrame
<1>19. CASE Advance(c)
  <2>1. UNCHANGED <<handover, unique, result>>
    BY <1>19 DEF Advance
  <2>2. CASE cl[c].role = "direct"
    <3>1. /\ cl'[c].role = "direct" /\ cl'[c].side = cl[c].side
          /\ cl'[c].k = cl[c].k /\ cl'[c].v = cl[c].v
      BY <1>19, <2>2, GoFields DEF Advance
    <3>2. QED  BY <2>1, <3>1, DelegatesFrame DEF Holding
  <2>3. CASE cl[c].role # "direct"
    BY <1>19, <2>1, <2>3, DoneFields DEF Advance, Delegates, Holding, Served
  <2>4. QED  BY <2>2, <2>3
<1>20. QED
  BY <1>1, <1>2, <1>3, <1>4, <1>5, <1>6, <1>7, <1>8, <1>9, <1>10, <1>11, <1>12, <1>13, <1>14, <1>15, <1>16, <1>17, <1>18, <1>19
  DEF SlotStep, Acquire, AtLeaf, Release

\* No step takes key or result from another client that has been granted the
\* slot: whoever could is the head of the same queue.
LEMMA OthersHold ==
  ASSUME SlotTypeInv, QueueInv, SlotExclusive, NEW c \in Clients, SlotStep(c),
         NEW d \in Clients, d # c, Delegates(d)
  PROVE  /\ Holding(d)' => HolderOK(d)'
         /\ (cl[d].side = "r" /\ cl[d].v # <<>> => cl[d].v[1] = cl[d].k)'
<1>1. KeepsLocals(d)
  BY OthersKeep DEF SlotTypeInv
<1>2. (cl[d].side = "r" /\ cl[d].v # <<>> => cl[d].v[1] = cl[d].k)'
  BY <1>1 DEF KeepsLocals, Delegates
<1>3. ASSUME Holding(d)'
      PROVE  HolderOK(d)'
  <2>1. Holding(d) /\ Heads(d) /\ HolderOK(d)
    BY <1>1, <1>3 DEF KeepsLocals, Holding, Heads, Delegates
  <2>2. Heads(c) => cl[c].side # cl[d].side
    BY <2>1 DEF SlotExclusive, Side
  <2>3. cl[c].side \in Sides /\ cl[d].side \in Sides
    BY DEF SlotTypeInv, SlotTypeOK, SlotLocals
  <2>4. cl[d].k \in SlotKeys
    <3>1. cl[d].pc # "idle"
      BY <2>1 DEF Holding, QueueInv, RoleOK
    <3>2. QED  BY <3>1 DEF SlotTypeInv, LocalsOK
  <2>5. unique'[cl[d].side] = unique[cl[d].side]
    <3>1. CASE ClaimKey(c)
      <4>1. \/ unique' = unique
            \/ /\ unique' = [unique EXCEPT ![cl[c].side] = cl[c].k]
               /\ unique[cl[c].side] \in {NoKey, cl[c].k}
        BY <3>1 DEF ClaimKey, Side
      <4>2. unique[cl[d].side] # NoKey
        BY <2>1, <2>4, SlotConstants DEF HolderOK
      <4>3. QED  BY <2>3, <4>1, <4>2 DEF SlotTypeInv, SlotTypeOK
    <3>2. CASE DecideHandover(c)
      <4>1. Heads(c)
        BY <3>2 DEF DecideHandover, Heads, QueueInv, RoleOK
      <4>2. PICK x : unique' = [unique EXCEPT ![cl[c].side] = x]
        BY <3>2 DEF DecideHandover, Side
      <4>3. QED  BY <2>2, <2>3, <4>1, <4>2 DEF SlotTypeInv, SlotTypeOK
    <3>3. CASE ~ClaimKey(c) /\ ~DecideHandover(c)
      BY <3>3
      DEF SlotStep, Acquire, AtLeaf, Release, Issue, Deposit, TakeTicket, Granted, Proceed,
          TurnConflict, GetCombiningValue, WriteLeaf, ReadLeaf, Publish, LoadTickets,
          OpenWindow, SetOwnWindow, SetOtherWindow, LeaveWindow,
          CheckWindow, CloseWindow, Advance
    <3>4. QED  BY <3>1, <3>2, <3>3
  <2>6. cl[d].side = "r" => result' = result
    <3>1. CASE Publish(c)
      <4>1. cl[c].side = "r"
        BY <3>1 DEF Publish, SlotTypeInv, LocalsOK
      <4>2. cl[c].role = "winner" => Heads(c)
        BY DEF Heads
      <4>3. cl[c].role # "winner" => result' = result
        BY <3>1 DEF Publish
      <4>4. QED  BY <2>2, <4>1, <4>2, <4>3
    <3>2. CASE ~Publish(c)
      BY <3>2
      DEF SlotStep, Acquire, AtLeaf, Release, Issue, ClaimKey, Deposit, TakeTicket, Granted,
          Proceed, TurnConflict, GetCombiningValue, WriteLeaf, ReadLeaf, LoadTickets,
          OpenWindow, SetOwnWindow, SetOtherWindow, DecideHandover, LeaveWindow,
          CheckWindow, CloseWindow, Advance
    <3>3. QED  BY <3>1, <3>2
  <2>7. QED  BY <1>1, <2>1, <2>5, <2>6 DEF KeepsLocals, HolderOK, Served
<1>4. QED  BY <1>2, <1>3

\* Every step keeps what is handed over a value of the slot's key.
LEMMA StepDelegation ==
  ASSUME SlotTypeInv, QueueInv, DelegationInv, WritesOwnKey, [SlotNext]_slotVars
  PROVE  DelegationInv'
<1>1. CASE UNCHANGED slotVars
  BY <1>1 DEF slotVars, DelegationInv, HandoverInv, ReadsOwnKey, Holding, HolderOK, Served, Side
<1>2. ASSUME NEW c \in Clients, SlotStep(c)
      PROVE  DelegationInv'
  <2>1. \A d \in Clients : Delegates(d)
    BY DEF DelegationInv, HandoverInv, ReadsOwnKey, Delegates, Side
  <2>2. Delegates(c)'
    BY <1>2, <2>1, OwnDelegates DEF SlotTypeInv, QueueInv
  <2>3. SlotExclusive
    BY QueueExclusive DEF SlotTypeInv
  <2>4. ASSUME NEW d \in Clients
        PROVE  /\ Holding(d)' => HolderOK(d)'
               /\ (cl[d].side = "r" /\ cl[d].v # <<>> => cl[d].v[1] = cl[d].k)'
    <3>1. CASE d = c
      BY <2>2, <3>1 DEF Delegates
    <3>2. CASE d # c
      BY <1>2, <2>1, <2>3, <3>2, OthersHold
    <3>3. QED  BY <3>1, <3>2
  <2>5. HandoverInv'
    BY <2>2, <2>4 DEF HandoverInv, Delegates
  <2>6. ReadsOwnKey'
    BY <2>4 DEF ReadsOwnKey, Side
  <2>7. QED  BY <2>5, <2>6 DEF DelegationInv
<1>3. QED  BY <1>1, <1>2 DEF SlotNext

\* Nothing has been read or handed over in the initial state.
LEMMA InitDelegation ==
  ASSUME SlotInit
  PROVE  DelegationInv
<1>1. \A c \in Clients : cl[c].role = "none" /\ cl[c].v = <<>>
  BY DEF SlotInit, IdleSlot
<1>2. ~handover["r"]
  BY DEF SlotInit, Sides
<1>3. QED
  BY <1>1, <1>2 DEF DelegationInv, HandoverInv, ReadsOwnKey, Holding

\* Delegation itself never mixes keys: as long as the leaf has no record with
\* another key's value (which the combining of writes of two keys may leave
\* there), every read of k, delegated or not, returns a value written for k.
THEOREM DelegationKeepsKeys ==
  ASSUME FewClients
  PROVE  SlotSpec /\ []WritesOwnKey => []ReadsOwnKey
<1>1. SlotInit => SlotTypeInv /\ QueueInv /\ DelegationInv
  BY InitSlotType, InitQueue, InitDelegation
<1>2. SlotTypeInv /\ QueueInv /\ DelegationInv /\ WritesOwnKey /\ [SlotNext]_slotVars
        => (SlotTypeInv /\ QueueInv /\ DelegationInv)'
  BY StepSlotTypeInv, StepQueue, StepDelegation
<1>3. DelegationInv => ReadsOwnKey
  BY DEF DelegationInv
<1>4. QED  BY <1>1, <1>2, <1>3, PTL DEF SlotSpec

-----------------------------------------------------------------------------
(* The time window of a slot that one side uses *)

\* How far ticket t is from the one being served.
Dist(t, head) == IF t >= head THEN t - head ELSE t + TicketMod - head
Size(s) == Cardinality(Queue(s))

Leaving == {"drain", "check", "clear", "advance"}
PastLoad == {"open", "own", "other", "next"}

\* The clients that wait for the slot's key among the first e of the queue were
\* issued before a winner of that key began its release.
Inside(s, e) ==
  \A d \in Clients :
    /\ cl[d].side = s /\ cl[d].pc = "turn" /\ cl[d].k = unique[s]
    /\ Dist(cl[d].t, current[s]) < e
    => cl[d].ov = TRUE

\* So were those ahead of the tail that the winner h has seen.
Marked(h, s) ==
  \A d \in Clients :
    /\ cl[d].side = s /\ cl[d].pc = "turn" /\ cl[d].k = cl[h].k
    /\ Dist(cl[d].t, current[s]) < Dist(cl[h].seen, current[s])
    => cl[d].ov = TRUE

\* The winner may have set its side's window.
Opened(h) == cl[h].pc = "next" \/ (cl[h].pc = "other" /\ cl[h].side = "r")

\* The window counted from the ticket being served, which has left it already
\* once its client is past the decrement.
Extent(h, s) == IF cl[h].pc \in {"check", "clear", "advance"} THEN window[s] + 1 ELSE window[s]

SeenInv(h, s) ==
  /\ cl[h].seen \in 0 .. (TicketMod - 1)
  /\ Dist(cl[h].seen, current[s]) <= Size(s)
  /\ window[s] <= Dist(cl[h].seen, current[s]) \/ Dist(cl[h].seen, current[s]) = 0
  /\ cl[h].role = "winner" => Marked(h, s)

HoldInv(h, s) ==
  /\ unique[s] = cl[h].k
  /\ cl[h].role = "handed" => handover[s] = TRUE
  /\ cl[h].role = "winner" => handover[s] = FALSE
  /\ cl[h].role = "winner" /\ ~Opened(h) => window[s] = 0
  /\ cl[h].pc \in {"open", "own", "other"} => cl[h].role = "winner"
  /\ cl[h].pc \in PastLoad => SeenInv(h, s)

(***************************************************************************)
(* The queue of side s with a head: the window never reaches beyond the    *)
(* queue nor beyond the tail the head has seen, so that the slot's key is  *)
(* let go only when nobody but the head is left in the window.             *)
(***************************************************************************)
HeadInv(h, s) ==
  /\ Extent(h, s) <= Size(s) /\ Inside(s, Extent(h, s))
  /\ cl[h].role = "handed" => cl[h].ov = TRUE
  /\ cl[h].pc \in Leaving => (unique[s] = NoKey \/ handover[s] = FALSE => Extent(h, s) <= 1)
  /\ cl[h].pc \notin Leaving => HoldInv(h, s)

\* The queue without a head.
NoHeadInv(s) ==
  (\A c \in Clients : cl[c].side = s => ~Heads(c)) =>
    /\ window[s] <= Size(s) /\ Inside(s, window[s])
    /\ unique[s] = NoKey \/ handover[s] = FALSE => window[s] = 0

\* All operations, in progress and to come, are of side s.
OneSide(s) ==
  \A c \in Clients : /\ cl[c].pc # "idle" => cl[c].side = s
                     /\ \A i \in 1 .. Len(todo[c]) : todo[c][i].side = s

OverlapInv(s) ==
  /\ OneSide(s) /\ NoHeadInv(s)
  /\ \A h \in Clients : cl[h].side = s /\ Heads(h) => HeadInv(h, s)

\* What a step does to the ghost and the remembered tail of the other clients.
LEMMA OthersGhost ==
  ASSUME SlotTypeOK, NEW c \in Clients, SlotStep(c), NEW d \in Clients, d # c
  PROVE  cl'[d].seen = cl[d].seen /\ (cl[d].ov = TRUE => cl'[d].ov = TRUE)
<1>1. (\E l : Turns(c, l)) => cl'[d] = cl[d]
  BY DEF Turns, SlotTypeOK
<1>2. CASE LoadTickets(c)
  <2>1. cl'[d] = cl[d] \/ cl'[d] = [cl[d] EXCEPT !.ov = TRUE]
    BY <1>2 DEF LoadTickets
  <2>2. cl[d] \in SlotLocals
    BY DEF SlotTypeOK
  <2> QED BY <2>1, <2>2 DEF SlotLocals
<1>3. CASE Acquire(c)
  BY <1>1, <1>3
  DEF Acquire, Issue, ClaimKey, Deposit, TakeTicket, Granted, Proceed, TurnConflict, Go
<1>4. CASE AtLeaf(c)
  BY <1>1, <1>4 DEF AtLeaf, GetCombiningValue, WriteLeaf, ReadLeaf, Go, Done
<1>5. CASE Release(c) /\ ~LoadTickets(c)
  <2>1. CASE Publish(c)
    BY <1>1, <2>1 DEF Publish, Go, Done
  <2>2. CASE ~Publish(c)
    BY <1>1, <1>5, <2>2
    DEF Release, OpenWindow, SetOwnWindow, SetOtherWindow, DecideHandover, LeaveWindow,
        CheckWindow, CloseWindow, Advance, Go, Done
  <2> QED BY <2>1, <2>2
<1> QED
  BY <1>2, <1>3, <1>4, <1>5 DEF SlotStep

\* And to its own, and to the side and key, while the operation is in progress.
LEMMA OwnGhost ==
  ASSUME SlotTypeOK, NEW c \in Clients, SlotStep(c), ~Issue(c), cl'[c].pc # "idle"
  PROVE  /\ cl'[c].ov = cl[c].ov /\ (~LoadTickets(c) => cl'[c].seen = cl[c].seen)
         /\ cl'[c].side = cl[c].side /\ cl'[c].k = cl[c].k
<1>1. cl[c] \in SlotLocals
  BY DEF SlotTypeOK
<1>2. ASSUME NEW p, NEW r, NEW v, NEW t,
             \/ cl'[c] = [cl[c] EXCEPT !.pc = p]
             \/ cl'[c] = [cl[c] EXCEPT !.pc = p, !.role = r]
             \/ cl'[c] = [cl[c] EXCEPT !.role = r, !.pc = p]
             \/ cl'[c] = [cl[c] EXCEPT !.pc = p, !.v = v]
             \/ cl'[c] = [cl[c] EXCEPT !.v = v, !.pc = p]
             \/ cl'[c] = [cl[c] EXCEPT !.pc = p, !.t = t]
      PROVE  /\ cl'[c].ov = cl[c].ov /\ cl'[c].seen = cl[c].seen
             /\ cl'[c].side = cl[c].side /\ cl'[c].k = cl[c].k
  BY <1>1, <1>2 DEF SlotLocals
<1>3. \A l : Turns(c, l) => cl'[c] = l
  BY DEF Turns, SlotTypeOK
<1>4. ~Done(c)
  BY DoneFields
<1>5. CASE Acquire(c)
  <2>1. CASE ClaimKey(c)
    <3>1. PICK p : cl'[c] = [cl[c] EXCEPT !.pc = p] \/ cl'[c] = [cl[c] EXCEPT !.pc = "work", !.role = "direct"]
      BY <1>3, <2>1 DEF ClaimKey, Go
    <3> QED BY <1>2, <3>1
  <2>2. CASE Deposit(c)
    BY <1>2, <1>3, <2>2 DEF Deposit, Go
  <2>3. CASE TakeTicket(c)
    BY <1>2, <1>3, <2>3 DEF TakeTicket
  <2>4. CASE Granted(c)
    <3>1. PICK p, r : cl'[c] = [cl[c] EXCEPT !.role = r, !.pc = p]
      BY <1>3, <2>4 DEF Granted, Proceed
    <3> QED BY <1>2, <3>1
  <2>5. CASE TurnConflict(c)
    BY <1>2, <1>3, <2>5 DEF TurnConflict
  <2> QED BY <1>5, <2>1, <2>2, <2>3, <2>4, <2>5 DEF Acquire
<1>6. CASE AtLeaf(c)
  <2>1. CASE GetCombiningValue(c)
    <3>1. PICK v : cl'[c] = [cl[c] EXCEPT !.pc = "write", !.v = v]
      BY <1>3, <2>1 DEF GetCombiningValue
    <3> QED BY <1>2, <3>1
  <2>2. CASE WriteLeaf(c)
    BY <1>2, <1>3, <1>4, <2>2 DEF WriteLeaf, Go
  <2>3. CASE ReadLeaf(c)
    <3>1. cl'[c] = [cl[c] EXCEPT !.v = store[cl[c].k], !.pc = "publish"]
      BY <1>3, <2>3 DEF ReadLeaf
    <3> QED BY <1>2, <3>1
  <2> QED BY <1>6, <2>1, <2>2, <2>3 DEF AtLeaf
<1>7. CASE LoadTickets(c)
  <2>1. cl'[c] = [cl[c] EXCEPT !.seen = ticket[Side(c)],
                               !.pc = IF handover[Side(c)] THEN "next" ELSE "open"]
    BY <1>7 DEF LoadTickets
  <2> QED BY <1>1, <1>7, <2>1 DEF SlotLocals
<1>8. CASE Publish(c)
  <2>1. CASE cl[c].role = "winner"
    BY <1>2, <1>3, <1>8, <2>1 DEF Publish, Go
  <2>2. CASE cl[c].role = "handed"
    BY <1>2, <1>3, <1>8, <2>2 DEF Publish
  <2>3. CASE cl[c].role \notin {"winner", "handed"}
    BY <1>4, <1>8, <2>3 DEF Publish
  <2> QED BY <2>1, <2>2, <2>3
<1>9. CASE Release(c) /\ ~LoadTickets(c) /\ ~Publish(c)
  BY <1>2, <1>3, <1>4, <1>9
  DEF Release, OpenWindow, SetOwnWindow, SetOtherWindow, DecideHandover, LeaveWindow,
      CheckWindow, CloseWindow, Advance, Go
<1> QED
  BY <1>5, <1>6, <1>7, <1>8, <1>9 DEF SlotStep

\* The size of a queue is a number.
LEMMA SizeNat ==
  ASSUME FewClients, NEW s
  PROVE  Size(s) \in Nat
<1>1. Queue(s) \subseteq Clients
  BY DEF Queue
<1> QED BY <1>1, QueueSize DEF Size

\* Where a client that waits stands in its queue: behind the head if there is one.
LEMMA Waiting ==
  ASSUME FewClients, SlotTypeOK, QueueInv, NEW s \in Sides,
         NEW d \in Clients, cl[d].side = s, cl[d].pc = "turn"
  PROVE  /\ Dist(cl[d].t, current[s]) \in Nat /\ Dist(cl[d].t, current[s]) < Size(s)
         /\ ~Heads(d) /\ d \in Queue(s) /\ cl[d].t \in 0 .. (TicketMod - 1)
         /\ (\E c \in Clients : Heads(c) /\ cl[c].side = s) => Dist(cl[d].t, current[s]) > 0
<1>1. d \in Queue(s) /\ ~Heads(d)
  BY DEF Queue, Queued, Heads, QueueInv, RoleOK
<1>2. Consecutive(Queue(s), ticket[s], current[s], Tickets)
  BY DEF QueueInv, TicketInv
<1>3. Tickets[d] = cl[d].t
  BY DEF Tickets
<1>4. cl[d].t \in 0 .. (TicketMod - 1) /\ current[s] \in 0 .. (TicketMod - 1) /\ TicketMod \in Nat
  BY <1>1, <1>2, <1>3, SlotConstants DEF Consecutive, SlotTypeOK
<1>5. Dist(cl[d].t, current[s]) \in Nat
  BY <1>4 DEF Dist
<1>6. Dist(cl[d].t, current[s]) < Size(s)
  BY <1>1, <1>2, <1>3 DEF Consecutive, Dist, Size
<1>7. ASSUME NEW c \in Clients, Heads(c), cl[c].side = s PROVE Dist(cl[d].t, current[s]) > 0
  <2>1. c \in Queue(s) /\ cl[c].t = current[s]
    BY <1>7 DEF Queue, Queued, QueueInv, TicketInv
  <2>2. Tickets[c] = cl[c].t /\ c # d
    BY <1>1, <1>7 DEF Tickets
  <2>3. cl[d].t # current[s]
    BY <1>1, <1>2, <1>3, <2>1, <2>2 DEF Consecutive
  <2> QED BY <1>4, <2>3 DEF Dist
<1> QED BY <1>1, <1>4, <1>5, <1>6, <1>7

\* A step that neither takes a ticket nor passes the queue on.
LEMMA QueueStays ==
  ASSUME SlotTypeInv, QueueInv, NEW c \in Clients, SlotStep(c), RoleOK(c)',
         ~TakeTicket(c), ~Advance(c), NEW s \in Sides
  PROVE  Size(s)' = Size(s) /\ current' = current
<1>1. QueuedSame(c)
  BY OwnQuiet DEF SlotTypeInv, QueueInv
<1>2. \A d \in Clients : d # c => KeepsLocals(d)
  BY OthersKeep DEF SlotTypeInv
<1>3. \A d \in Clients : d # c => Queued(d)' = Queued(d)
  BY <1>2 DEF KeepsLocals, Queued, Heads
<1>4. \A d \in Clients : d \in Queue(s)' <=> d \in Queue(s)
  BY <1>1, <1>2, <1>3 DEF Queue, KeepsLocals, QueuedSame
<1>5. Queue(s)' = Queue(s)
  BY <1>4 DEF Queue
<1>6. current' = current
  BY DEF SlotStep, Acquire, AtLeaf, Release, Issue, ClaimKey, Deposit, Granted, Proceed,
         TurnConflict, GetCombiningValue, WriteLeaf, ReadLeaf, Publish, LoadTickets,
         OpenWindow, SetOwnWindow, SetOtherWindow, DecideHandover, LeaveWindow,
         CheckWindow, CloseWindow
<1> QED BY <1>5, <1>6 DEF Size

\* The clients that wait besides c are those that waited before, marked as before.
LEMMA WaitersKeep ==
  ASSUME SlotTypeOK, NEW c \in Clients, SlotStep(c),
         NEW d \in Clients, d # c, cl'[d].pc = "turn"
  PROVE  /\ cl[d].side = cl'[d].side /\ cl[d].pc = "turn"
         /\ cl'[d].t = cl[d].t /\ cl'[d].k = cl[d].k
         /\ cl[d].ov = TRUE => cl'[d].ov = TRUE
  BY OthersKeep, OthersGhost DEF KeepsLocals

\* A step that leaves the counters alone, and its client not waiting, keeps the
\* clients inside the window marked, unless the slot gets another key.
LEMMA InsideKeeps ==
  ASSUME SlotTypeInv, NEW c \in Clients, SlotStep(c), cl'[c].pc # "turn", current' = current,
         NEW s \in Sides, NEW e, Inside(s, e),
         unique'[s] = unique[s] \/ unique'[s] = NoKey
  PROVE  \A d \in Clients : /\ cl'[d].side = s /\ cl'[d].pc = "turn" /\ cl'[d].k = unique'[s]
                            /\ Dist(cl'[d].t, current'[s]) < e
                            => cl'[d].ov = TRUE
<1>1. SUFFICES ASSUME NEW d \in Clients, cl'[d].side = s, cl'[d].pc = "turn", cl'[d].k = unique'[s],
                      Dist(cl'[d].t, current'[s]) < e
               PROVE  cl'[d].ov = TRUE
  OBVIOUS
<1>2. d # c
  BY <1>1
<1>0. SlotTypeOK
  BY DEF SlotTypeInv
<1>3. /\ cl[d].side = s /\ cl[d].pc = "turn" /\ cl'[d].t = cl[d].t /\ cl'[d].k = cl[d].k
      /\ cl[d].ov = TRUE => cl'[d].ov = TRUE
  BY <1>0, <1>1, <1>2, WaitersKeep
<1>4. cl[d].k \in SlotKeys
  BY <1>3 DEF SlotTypeInv, LocalsOK
<1>5. unique'[s] = unique[s]
  BY <1>1, <1>3, <1>4, SlotConstants
<1>6. Dist(cl[d].t, current[s]) < e
  BY <1>1, <1>3
<1> QED BY <1>1, <1>3, <1>5, <1>6 DEF Inside

\* The same for those that a winner has seen.
LEMMA MarkedKeeps ==
  ASSUME SlotTypeInv, NEW c \in Clients, SlotStep(c), cl'[c].pc # "turn", current' = current,
         NEW s \in Sides, NEW h \in Clients, Marked(h, s),
         cl'[h].k = cl[h].k, cl'[h].seen = cl[h].seen
  PROVE  Marked(h, s)'
<1>1. SUFFICES ASSUME NEW d \in Clients, cl'[d].side = s, cl'[d].pc = "turn", cl'[d].k = cl'[h].k,
                      Dist(cl'[d].t, current'[s]) < Dist(cl'[h].seen, current'[s])
               PROVE  cl'[d].ov = TRUE
  BY DEF Marked, Dist
<1>2. d # c
  BY <1>1
<1>0. SlotTypeOK
  BY DEF SlotTypeInv
<1>3. /\ cl[d].side = s /\ cl[d].pc = "turn" /\ cl'[d].t = cl[d].t /\ cl'[d].k = cl[d].k
      /\ cl[d].ov = TRUE => cl'[d].ov = TRUE
  BY <1>0, <1>1, <1>2, WaitersKeep
<1>4. Dist(cl[d].t, current[s]) < Dist(cl[h].seen, current[s])
  BY <1>1, <1>3
<1> QED BY <1>1, <1>3, <1>4 DEF Marked

\* The head's step restores the invariant if it restores the head's part.
LEMMA HeadRestores ==
  ASSUME SlotExclusive', NEW s \in Sides, OneSide(s)',
         NEW c \in Clients, cl'[c].side = s, Heads(c)', HeadInv(c, s)'
  PROVE  OverlapInv(s)'
<1>1. \A h \in Clients : cl'[h].side = s /\ Heads(h)' => h = c
  BY DEF SlotExclusive, Side
<1>2. NoHeadInv(s)'
  BY DEF NoHeadInv
<1>3. \A h \in Clients : cl'[h].side = s /\ Heads(h)' => HeadInv(h, s)'
  BY <1>1
<1> QED BY <1>2, <1>3 DEF OverlapInv

\* The locals of client c but for the program counter and the value it writes
\* or has read.
KeepsPlace(c) ==
  /\ cl'[c].side = cl[c].side /\ cl'[c].k = cl[c].k /\ cl'[c].t = cl[c].t
  /\ cl'[c].role = cl[c].role /\ cl'[c].seen = cl[c].seen /\ cl'[c].ov = cl[c].ov

\* The head goes on without touching its side of the slot.
LEMMA HeadMoves ==
  ASSUME SlotTypeInv, NEW s \in Sides, NEW c \in Clients, SlotStep(c), cl[c].side = s,
         HeadInv(c, s), KeepsPlace(c), Size(s)' = Size(s), current' = current,
         window'[s] = window[s], handover'[s] = handover[s], unique'[s] = unique[s],
         cl'[c].pc # "turn",
         \/ /\ cl[c].pc \notin Leaving /\ cl'[c].pc \notin Leaving
            /\ cl'[c].pc \in PastLoad => cl[c].pc \in PastLoad
            /\ cl'[c].pc \in {"open", "own", "other"} => cl[c].pc \in {"open", "own", "other"}
            /\ Opened(c) => Opened(c)'
         \/ /\ cl[c].pc \in Leaving \ {"drain"} /\ cl'[c].pc \in Leaving \ {"drain"}
  PROVE  HeadInv(c, s)'
<1>0. /\ cl'[c].side = cl[c].side /\ cl'[c].k = cl[c].k /\ cl'[c].t = cl[c].t
      /\ cl'[c].role = cl[c].role /\ cl'[c].seen = cl[c].seen /\ cl'[c].ov = cl[c].ov
  BY DEF KeepsPlace
<1>1. PICK e : e = Extent(c, s)
  OBVIOUS
<1>2. Extent(c, s)' = e
  BY <1>1 DEF Extent, Leaving
<1>3. Inside(s, Extent(c, s))'
  <2>1. Inside(s, e)
    BY <1>1 DEF HeadInv
  <2>2. \A d \in Clients : /\ cl'[d].side = s /\ cl'[d].pc = "turn" /\ cl'[d].k = unique'[s]
                           /\ Dist(cl'[d].t, current'[s]) < e
                           => cl'[d].ov = TRUE
    BY <2>1, InsideKeeps
  <2> QED BY <1>2, <2>2 DEF Inside, Dist
<1>4. Extent(c, s)' <= Size(s)'
  BY <1>1, <1>2 DEF HeadInv
<1>5. (cl[c].role = "handed" => cl[c].ov = TRUE)'
  BY <1>0 DEF HeadInv
<1>6. CASE cl[c].pc \in Leaving \ {"drain"} /\ cl'[c].pc \in Leaving \ {"drain"}
  <2>1. unique[s] = NoKey \/ handover[s] = FALSE => e <= 1
    BY <1>1, <1>6 DEF HeadInv
  <2>2. (unique[s] = NoKey \/ handover[s] = FALSE => Extent(c, s) <= 1)'
    BY <1>2, <2>1
  <2> QED BY <1>3, <1>4, <1>5, <1>6, <2>2 DEF HeadInv
<1>7. CASE cl[c].pc \notin Leaving /\ cl'[c].pc \notin Leaving
  <2>1. HoldInv(c, s)
    BY <1>7 DEF HeadInv
  <2>2. (cl'[c].pc \in PastLoad => cl[c].pc \in PastLoad) /\ (Opened(c) => Opened(c)')
        /\ (cl'[c].pc \in {"open", "own", "other"} => cl[c].pc \in {"open", "own", "other"})
    BY <1>7
  <2>3. ASSUME cl'[c].pc \in PastLoad PROVE SeenInv(c, s)'
    <3>1. SeenInv(c, s)
      BY <2>1, <2>2, <2>3 DEF HoldInv
    <3>2. cl[c].role = "winner" => Marked(c, s)'
      BY <1>0, <3>1, MarkedKeeps DEF SeenInv
    <3> QED BY <1>0, <3>1, <3>2 DEF SeenInv, Dist
  <2>4. HoldInv(c, s)'
    BY <1>0, <2>1, <2>2, <2>3 DEF HoldInv
  <2> QED BY <1>3, <1>4, <1>5, <1>7, <2>4 DEF HeadInv
<1> QED BY <1>6, <1>7

\* Operations stay on their side of the slot.
LEMMA OneSideKeeps ==
  ASSUME SlotTypeInv, NEW s \in Sides, OneSide(s), NEW c \in Clients, SlotStep(c)
  PROVE  OneSide(s)'
<1>0. SlotTypeOK
  BY DEF SlotTypeInv
<1>1. \A d \in Clients : d # c => KeepsLocals(d)
  BY <1>0, OthersKeep
<1>2. CASE Issue(c)
  <2>1. todo[c] # <<>> /\ todo[c] \in Seq(SlotOps) /\ todo' = [todo EXCEPT ![c] = Tail(todo[c])]
    BY <1>0, <1>2 DEF Issue, SlotTypeOK
  <2>2. Head(todo[c]) = todo[c][1] /\ 1 \in 1 .. Len(todo[c])
    BY <2>1
  <2>3. PICK o \in SlotOps : o = Head(todo[c])
    BY <2>1
  <2>4. cl'[c] = [IdleSlot EXCEPT !.pc = "claim", !.side = o.side, !.k = o.k,
                                  !.v = IF o.side = "w" THEN o.v ELSE <<>>]
    BY <1>0, <1>2, <2>3 DEF Issue, Turns, SlotTypeOK
  <2>5. cl'[c].side = s
    BY <2>2, <2>3, <2>4 DEF IdleSlot, OneSide
  <2>6. \A i \in 1 .. Len(Tail(todo[c])) : Tail(todo[c])[i].side = s
    <3>1. ASSUME NEW i \in 1 .. Len(Tail(todo[c])) PROVE Tail(todo[c])[i].side = s
      <4>1. Tail(todo[c])[i] = todo[c][i + 1] /\ i + 1 \in 1 .. Len(todo[c])
        BY <2>1, <3>1
      <4> QED BY <4>1 DEF OneSide
    <3> QED BY <3>1
  <2>7. ASSUME NEW d \in Clients
        PROVE  (cl'[d].pc # "idle" => cl'[d].side = s) /\ \A i \in 1 .. Len(todo'[d]) : todo'[d][i].side = s
    <3>1. CASE d = c
      BY <1>0, <2>1, <2>5, <2>6, <3>1 DEF SlotTypeOK
    <3>2. CASE d # c
      <4>1. todo'[d] = todo[d]
        BY <1>0, <2>1, <3>2 DEF SlotTypeOK
      <4> QED BY <1>1, <3>2, <4>1 DEF OneSide, KeepsLocals
    <3> QED BY <3>1, <3>2
  <2> QED BY <2>7 DEF OneSide
<1>3. CASE ~Issue(c)
  <2>1. todo' = todo /\ cl[c].pc # "idle"
    BY <1>3 DEF SlotStep, Acquire, AtLeaf, Release, ClaimKey, Deposit, TakeTicket, Granted, Proceed,
           TurnConflict, GetCombiningValue, WriteLeaf, ReadLeaf, Publish, LoadTickets,
           OpenWindow, SetOwnWindow, SetOtherWindow, DecideHandover, LeaveWindow,
           CheckWindow, CloseWindow, Advance
  <2>2. cl'[c].pc # "idle" => cl'[c].side = s
    BY <1>0, <1>3, <2>1, OwnGhost DEF OneSide
  <2> QED BY <1>1, <2>1, <2>2 DEF OneSide, KeepsLocals
<1> QED BY <1>2, <1>3

\* What moving the program counter, or keeping a value, leaves alone.
LEMMA PlaceKept ==
  ASSUME SlotTypeOK, NEW c \in Clients, NEW p, NEW v,
         \/ Go(c, p)
         \/ Turns(c, [cl[c] EXCEPT !.pc = p, !.v = v])
         \/ Turns(c, [cl[c] EXCEPT !.v = v, !.pc = p])
  PROVE  KeepsPlace(c) /\ cl'[c].pc = p
<1>1. cl[c] \in SlotLocals
  BY DEF SlotTypeOK
<1>2. \/ cl'[c] = [cl[c] EXCEPT !.pc = p]
      \/ cl'[c] = [cl[c] EXCEPT !.pc = p, !.v = v]
      \/ cl'[c] = [cl[c] EXCEPT !.v = v, !.pc = p]
  BY DEF SlotTypeOK, Turns, Go
<1> QED BY <1>1, <1>2 DEF SlotLocals, KeepsPlace

\* The steps of the head that work at the leaf, pass a value on, or only look
\* at its own side's window.
QuietAtHead(c) ==
  \/ GetCombiningValue(c) \/ WriteLeaf(c) \/ ReadLeaf(c) \/ Publish(c)
  \/ OpenWindow(c) \/ SetOtherWindow(c) \/ CheckWindow(c) \/ CloseWindow(c)

\* They leave the head's place, and its side of the slot, alone.
LEMMA QuietKeeps ==
  ASSUME SlotTypeInv, NEW s \in Sides, NEW c \in Clients, cl[c].side = s,
         Heads(c), QuietAtHead(c)
  PROVE  /\ KeepsPlace(c) /\ SlotStep(c) /\ cl'[c].pc # "turn"
         /\ ~TakeTicket(c) /\ ~Advance(c) /\ Heads(c)'
         /\ window'[s] = window[s] /\ handover'[s] = handover[s] /\ unique'[s] = unique[s]
         /\ \/ /\ cl[c].pc \notin Leaving /\ cl'[c].pc \notin Leaving
               /\ cl'[c].pc \in PastLoad => cl[c].pc \in PastLoad
               /\ cl'[c].pc \in {"open", "own", "other"} => cl[c].pc \in {"open", "own", "other"}
               /\ Opened(c) => Opened(c)'
            \/ /\ cl[c].pc \in Leaving \ {"drain"} /\ cl'[c].pc \in Leaving \ {"drain"}
<1>0. SlotTypeOK
  BY DEF SlotTypeInv
<1>1. SlotStep(c) /\ ~TakeTicket(c) /\ ~Advance(c)
  BY DEF QuietAtHead, SlotStep, AtLeaf, Release, GetCombiningValue, WriteLeaf, ReadLeaf, Publish,
         OpenWindow, SetOtherWindow, CheckWindow, CloseWindow, TakeTicket, Advance
<1>2. ASSUME NEW p, p # "turn", KeepsPlace(c), cl'[c].pc = p,
             window'[s] = window[s], handover'[s] = handover[s], unique'[s] = unique[s],
             \/ /\ cl[c].pc \in {"work", "write", "publish"} /\ p \in {"write", "publish", "load"}
             \/ /\ cl[c].pc = "open" /\ p \in {"own", "other", "next"}
             \/ /\ cl[c].pc = "other" /\ p \in {"own", "next"} /\ (cl[c].side = "r" => p = "next")
             \/ /\ cl[c].pc \in {"check", "clear"} /\ p \in {"clear", "advance"}
      PROVE  /\ Heads(c)'
             /\ \/ /\ cl[c].pc \notin Leaving /\ cl'[c].pc \notin Leaving
                   /\ cl'[c].pc \in PastLoad => cl[c].pc \in PastLoad
                   /\ cl'[c].pc \in {"open", "own", "other"} => cl[c].pc \in {"open", "own", "other"}
                   /\ Opened(c) => Opened(c)'
                \/ /\ cl[c].pc \in Leaving \ {"drain"} /\ cl'[c].pc \in Leaving \ {"drain"}
  BY <1>2 DEF KeepsPlace, Heads, Leaving, PastLoad, Opened
<1>3. CASE GetCombiningValue(c)
  <2>1. PICK v : Turns(c, [cl[c] EXCEPT !.pc = "write", !.v = v])
    BY <1>3 DEF GetCombiningValue
  <2>2. KeepsPlace(c) /\ cl'[c].pc = "write"
    BY <1>0, <2>1, PlaceKept
  <2> QED BY <1>1, <1>2, <1>3, <2>2 DEF GetCombiningValue
<1>4. CASE WriteLeaf(c)
  <2>1. cl[c].pc = "write" /\ cl[c].role # "direct" /\ Go(c, "load")
    BY <1>4 DEF WriteLeaf, Heads
  <2>2. KeepsPlace(c) /\ cl'[c].pc = "load"
    BY <1>0, <2>1, PlaceKept
  <2> QED BY <1>1, <1>2, <1>4, <2>1, <2>2 DEF WriteLeaf
<1>5. CASE ReadLeaf(c)
  <2>1. PICK v : Turns(c, [cl[c] EXCEPT !.v = v, !.pc = "publish"])
    BY <1>5 DEF ReadLeaf
  <2>2. KeepsPlace(c) /\ cl'[c].pc = "publish"
    BY <1>0, <2>1, PlaceKept
  <2> QED BY <1>1, <1>2, <1>5, <2>2 DEF ReadLeaf
<1>6. CASE Publish(c)
  <2>1. cl[c].pc = "publish" /\ cl[c].role \in {"winner", "handed"}
    BY <1>6 DEF Publish, Heads
  <2>2. KeepsPlace(c) /\ cl'[c].pc = "load"
    <3>1. CASE cl[c].role = "winner"
      BY <1>0, <1>6, <3>1, PlaceKept DEF Publish
    <3>2. CASE cl[c].role = "handed"
      BY <1>0, <1>6, <3>2, PlaceKept DEF Publish
    <3> QED BY <2>1, <3>1, <3>2
  <2> QED BY <1>1, <1>2, <1>6, <2>1, <2>2 DEF Publish
<1>7. CASE OpenWindow(c)
  <2>1. PICK p : p \in {"own", "other", "next"} /\ Go(c, p) /\ cl[c].pc = "open"
    BY <1>7 DEF OpenWindow
  <2>2. KeepsPlace(c) /\ cl'[c].pc = p
    BY <1>0, <2>1, PlaceKept
  <2> QED BY <1>1, <1>2, <1>7, <2>1, <2>2 DEF OpenWindow
<1>8. CASE SetOtherWindow(c)
  <2>1. PICK p : p \in {"own", "next"} /\ Go(c, p) /\ cl[c].pc = "other" /\ (s = "r" => p = "next")
    BY <1>8 DEF SetOtherWindow, Side
  <2>2. KeepsPlace(c) /\ cl'[c].pc = p
    BY <1>0, <2>1, PlaceKept
  <2>3. PICK o \in Sides : o # s /\ \E x : window' = [window EXCEPT ![o] = x]
    BY <1>8 DEF SetOtherWindow, Other, Side, Sides
  <2>4. window'[s] = window[s]
    BY <1>0, <2>3 DEF SlotTypeOK
  <2> QED BY <1>1, <1>2, <1>8, <2>1, <2>2, <2>4 DEF SetOtherWindow
<1>9. CASE CheckWindow(c)
  <2>1. PICK p : p \in {"clear", "advance"} /\ Go(c, p) /\ cl[c].pc = "check"
    BY <1>9 DEF CheckWindow
  <2>2. KeepsPlace(c) /\ cl'[c].pc = p
    BY <1>0, <2>1, PlaceKept
  <2> QED BY <1>1, <1>2, <1>9, <2>1, <2>2 DEF CheckWindow
<1>10. CASE CloseWindow(c)
  <2>1. Go(c, "advance") /\ cl[c].pc = "clear"
    BY <1>10 DEF CloseWindow
  <2>2. KeepsPlace(c) /\ cl'[c].pc = "advance"
    BY <1>0, <2>1, PlaceKept
  <2> QED BY <1>1, <1>2, <1>10, <2>1, <2>2 DEF CloseWindow
<1> QED
  BY <1>3, <1>4, <1>5, <1>6, <1>7, <1>8, <1>9, <1>10 DEF QuietAtHead

\* So they keep the head's part of the invariant.
LEMMA QuietHead ==
  ASSUME SlotTypeInv, QueueInv, QueueInv', NEW s \in Sides, NEW c \in Clients, cl[c].side = s,
         Heads(c), HeadInv(c, s), QuietAtHead(c)
  PROVE  HeadInv(c, s)' /\ Heads(c)' /\ cl'[c].side = s
<1>1. SlotStep(c) /\ ~TakeTicket(c) /\ ~Advance(c) /\ KeepsPlace(c) /\ Heads(c)'
  BY QuietKeeps
<1>2. RoleOK(c)'
  BY DEF QueueInv
<1>3. Size(s)' = Size(s) /\ current' = current
  BY <1>1, <1>2, QueueStays
<1>4. HeadInv(c, s)'
  BY <1>1, <1>3, QuietKeeps, HeadMoves
<1> QED BY <1>1, <1>4 DEF KeepsPlace

\* The distance to the tail of a queue of n clients.
LEMMA DistTail ==
  ASSUME NEW head \in 0 .. (TicketMod - 1), NEW n \in Nat, n <= TicketMod
  PROVE  /\ Plus(head, n) \in 0 .. (TicketMod - 1)
         /\ Dist(Plus(head, n), head) = IF n = TicketMod THEN 0 ELSE n
  BY SlotConstants DEF Plus, Dist

\* The distance in the width of a ticket, as the code computes it.
LEMMA DistMod ==
  ASSUME NEW t \in 0 .. (TicketMod - 1), NEW head \in 0 .. (TicketMod - 1)
  PROVE  /\ Dist(t, head) \in 0 .. (TicketMod - 1)
         /\ (TicketMod + t - head) % TicketMod = Dist(t, head)
         /\ t # (head + 1) % TicketMod <=> Dist(t, head) # 1
<1>0. TicketMod \in Nat /\ TicketMod > 1 /\ t \in Nat /\ head \in Nat
  BY SlotConstants
<1>1. Dist(t, head) \in 0 .. (TicketMod - 1)
  BY <1>0 DEF Dist
<1>2. CASE t >= head
  <2>1. PICK d \in 0 .. (TicketMod - 1) : d = t - head
    BY <1>0, <1>2
  <2>2. (TicketMod + d) % TicketMod = d
    BY <1>0, <2>1
  <2>3. TicketMod + t - head = TicketMod + d
    BY <1>0, <2>1
  <2>4. Dist(t, head) = d
    BY <1>2, <2>1 DEF Dist
  <2>5. (TicketMod + t - head) % TicketMod = Dist(t, head)
    BY <2>2, <2>3, <2>4
  <2>6. t # (IF head = TicketMod - 1 THEN 0 ELSE head + 1) <=> d # 1
    BY <1>0, <1>2, <2>1
  <2> QED BY <1>1, <2>4, <2>5, <2>6, NextTicket
<1>3. CASE ~(t >= head)
  <2>1. PICK d \in 0 .. (TicketMod - 1) : d = TicketMod + t - head
    BY <1>0, <1>3
  <2>2. d % TicketMod = d
    BY <1>0, <2>1
  <2>4. Dist(t, head) = d
    BY <1>0, <1>3, <2>1 DEF Dist
  <2>5. (TicketMod + t - head) % TicketMod = Dist(t, head)
    BY <2>1, <2>2, <2>4
  <2>6. t # (IF head = TicketMod - 1 THEN 0 ELSE head + 1) <=> d # 1
    BY <1>0, <1>3, <2>1
  <2> QED BY <1>1, <2>4, <2>5, <2>6, NextTicket
<1> QED BY <1>2, <1>3

\* The tail of a queue, seen from its head.
LEMMA TailSeen ==
  ASSUME FewClients, SlotTypeOK, QueueInv, NEW s \in Sides
  PROVE  /\ ticket[s] \in 0 .. (TicketMod - 1) /\ Size(s) \in Nat /\ Size(s) <= TicketMod
         /\ Dist(ticket[s], current[s]) = IF Size(s) = TicketMod THEN 0 ELSE Size(s)
<1>1. Queue(s) \subseteq Clients
  BY DEF Queue
<1>2. Size(s) \in Nat /\ Size(s) <= TicketMod
  BY <1>1, QueueSize DEF Size
<1>3. ticket[s] = Plus(current[s], Size(s))
  BY DEF QueueInv, TicketInv, Consecutive, Size
<1>4. current[s] \in 0 .. (TicketMod - 1)
  BY DEF SlotTypeOK
<1> QED BY <1>2, <1>3, <1>4, DistTail

\* The head reads the tail of its queue, and marks those that wait if it is a
\* winner.
LEMMA LoadHead ==
  ASSUME FewClients, SlotTypeInv, QueueInv, QueueInv', NEW s \in Sides, NEW c \in Clients,
         cl[c].side = s, Heads(c), HeadInv(c, s), LoadTickets(c)
  PROVE  HeadInv(c, s)' /\ Heads(c)' /\ cl'[c].side = s
<1>0. SlotTypeOK /\ SlotStep(c) /\ cl[c].pc = "load"
  BY DEF SlotTypeInv, SlotStep, Release, LoadTickets
<1>1. /\ cl'[c].pc = IF handover[s] THEN "next" ELSE "open"
      /\ cl'[c].side = cl[c].side /\ cl'[c].k = cl[c].k /\ cl'[c].role = cl[c].role
  BY <1>0, LoadFields
<1>2. cl'[c].seen = ticket[s] /\ cl'[c].ov = cl[c].ov
  <2>1. cl'[c] = [cl[c] EXCEPT !.seen = ticket[Side(c)],
                               !.pc = IF handover[Side(c)] THEN "next" ELSE "open"]
    BY DEF LoadTickets
  <2>2. cl[c] \in SlotLocals
    BY <1>0 DEF SlotTypeOK
  <2> QED BY <2>1, <2>2 DEF SlotLocals, Side
<1>3. ~TakeTicket(c) /\ ~Advance(c) /\ RoleOK(c)'
  BY <1>0 DEF TakeTicket, Advance, QueueInv
<1>4. Size(s)' = Size(s) /\ current' = current
  BY <1>0, <1>3, QueueStays
<1>5. window' = window /\ handover' = handover /\ unique' = unique
  BY DEF LoadTickets
<1>6. cl'[c].pc \in {"open", "next"} /\ cl[c].role \in {"winner", "handed"}
  BY <1>0, <1>1 DEF Heads
<1>7. HoldInv(c, s)
  BY <1>0 DEF HeadInv, Leaving
<1>8. Extent(c, s) = window[s] /\ Extent(c, s)' = window[s]
  BY <1>0, <1>5, <1>6 DEF Extent
<1>9. Inside(s, Extent(c, s))'
  <2>1. Inside(s, window[s])
    BY <1>8 DEF HeadInv
  <2>2. \A d \in Clients : /\ cl'[d].side = s /\ cl'[d].pc = "turn" /\ cl'[d].k = unique'[s]
                           /\ Dist(cl'[d].t, current'[s]) < window[s]
                           => cl'[d].ov = TRUE
    BY <1>0, <1>4, <1>5, <1>6, <2>1, InsideKeeps
  <2> QED BY <1>8, <2>2 DEF Inside, Dist
<1>10. cl[c].role = "winner" => Marked(c, s)'
  <2>1. SUFFICES ASSUME cl[c].role = "winner",
                        NEW d \in Clients, cl'[d].side = s, cl'[d].pc = "turn", cl'[d].k = cl'[c].k
                 PROVE  cl'[d].ov = TRUE
    BY DEF Marked
  <2>2. d # c
    BY <1>6, <2>1
  <2>3. KeepsLocals(d) /\ cl[d] \in SlotLocals
    BY <1>0, <2>2, OthersKeep DEF SlotTypeOK
  <2>4. cl[d].pc # "idle" /\ cl[d].side = cl[c].side /\ cl[d].k = cl[c].k
    BY <1>1, <2>1, <2>3 DEF KeepsLocals
  <2>5. cl'[d] = [cl[d] EXCEPT !.ov = TRUE]
    BY <2>1, <2>2, <2>4 DEF LoadTickets
  <2> QED BY <2>3, <2>5 DEF SlotLocals
<1>11. SeenInv(c, s)'
  <2>1. /\ ticket[s] \in 0 .. (TicketMod - 1) /\ Size(s) \in Nat
        /\ Dist(ticket[s], current[s]) = IF Size(s) = TicketMod THEN 0 ELSE Size(s)
    BY <1>0, TailSeen
  <2>2. window[s] <= Size(s)
    BY <1>8 DEF HeadInv
  <2>3. Dist(cl'[c].seen, current'[s]) = IF Size(s) = TicketMod THEN 0 ELSE Size(s)
    BY <1>2, <1>4, <2>1
  <2>4. /\ Dist(cl'[c].seen, current'[s]) <= Size(s)
        /\ window[s] <= Dist(cl'[c].seen, current'[s]) \/ Dist(cl'[c].seen, current'[s]) = 0
    BY <2>1, <2>2, <2>3
  <2>5. cl'[c].seen \in 0 .. (TicketMod - 1)
    BY <1>2, <2>1
  <2> QED BY <1>1, <1>4, <1>5, <1>10, <2>4, <2>5 DEF SeenInv, Dist
<1>12. HoldInv(c, s)'
  <2>1. handover[s] \in BOOLEAN
    BY <1>0 DEF SlotTypeOK
  <2>2. cl'[c].pc = "open" => cl[c].role = "winner"
    BY <1>1, <1>6, <1>7, <2>1 DEF HoldInv
  <2>3. cl[c].role = "winner" => window[s] = 0
    BY <1>0, <1>7 DEF HoldInv, Opened
  <2> QED BY <1>1, <1>5, <1>6, <1>7, <1>11, <2>2, <2>3 DEF HoldInv
<1>13. window[s] <= Size(s) /\ (cl[c].role = "handed" => cl[c].ov = TRUE)
  BY <1>8 DEF HeadInv
<1>14. HeadInv(c, s)'
  BY <1>1, <1>2, <1>4, <1>6, <1>8, <1>9, <1>12, <1>13 DEF HeadInv, Leaving
<1> QED BY <1>1, <1>6, <1>14 DEF Heads

\* The winner opens its own side's window up to the tail that it has seen.
LEMMA OpenHead ==
  ASSUME FewClients, SlotTypeInv, QueueInv, QueueInv', NEW s \in Sides, NEW c \in Clients,
         cl[c].side = s, Heads(c), HeadInv(c, s), SetOwnWindow(c)
  PROVE  HeadInv(c, s)' /\ Heads(c)' /\ cl'[c].side = s
<1>0. SlotTypeOK /\ SlotStep(c) /\ cl[c].pc = "own"
  BY DEF SlotTypeInv, SlotStep, Release, SetOwnWindow
<1>1. KeepsPlace(c) /\ cl'[c].pc = (IF s = "r" THEN "other" ELSE "next")
  BY <1>0, PlaceKept DEF SetOwnWindow, Side
<1>2. /\ cl'[c].side = cl[c].side /\ cl'[c].k = cl[c].k /\ cl'[c].role = cl[c].role
      /\ cl'[c].seen = cl[c].seen /\ cl'[c].ov = cl[c].ov
  BY <1>1 DEF KeepsPlace
<1>3. ~TakeTicket(c) /\ ~Advance(c) /\ RoleOK(c)'
  BY <1>0 DEF TakeTicket, Advance, QueueInv
<1>4. Size(s)' = Size(s) /\ current' = current
  BY <1>0, <1>3, QueueStays
<1>5. HoldInv(c, s) /\ cl[c].role = "winner" /\ SeenInv(c, s)
  BY <1>0 DEF HeadInv, Leaving, HoldInv, PastLoad
<1>6. current[s] \in 0 .. (TicketMod - 1) /\ cl[c].seen \in 0 .. (TicketMod - 1)
  BY <1>0, <1>5 DEF SlotTypeOK, SeenInv
<1>7. PICK D \in Nat : D = Dist(cl[c].seen, current[s]) /\ D = (TicketMod + cl[c].seen - current[s]) % TicketMod
  <2>1. /\ Dist(cl[c].seen, current[s]) \in 0 .. (TicketMod - 1)
        /\ (TicketMod + cl[c].seen - current[s]) % TicketMod = Dist(cl[c].seen, current[s])
    BY <1>6, DistMod
  <2> QED BY <2>1, SlotConstants
<1>8. window'[s] = D /\ handover' = handover /\ unique' = unique
  BY <1>0, <1>7 DEF SetOwnWindow, SlotTypeOK, Side
<1>9. Extent(c, s)' = D
  BY <1>1, <1>8 DEF Extent
<1>10. Inside(s, D)
  BY <1>5, <1>7 DEF Inside, Marked, SeenInv, HoldInv
<1>11. Inside(s, Extent(c, s))'
  <2>2. \A d \in Clients : /\ cl'[d].side = s /\ cl'[d].pc = "turn" /\ cl'[d].k = unique'[s]
                           /\ Dist(cl'[d].t, current'[s]) < D
                           => cl'[d].ov = TRUE
    BY <1>0, <1>1, <1>4, <1>8, <1>10, InsideKeeps
  <2> QED BY <1>9, <2>2 DEF Inside, Dist
<1>12. SeenInv(c, s)'
  <2>1. Marked(c, s)'
    BY <1>0, <1>1, <1>2, <1>4, <1>5, MarkedKeeps DEF SeenInv
  <2>2. Dist(cl'[c].seen, current'[s]) = D /\ D <= Size(s)
    BY <1>2, <1>4, <1>5, <1>7 DEF SeenInv
  <2>3. D <= D
    BY <1>7
  <2> QED BY <1>2, <1>4, <1>6, <1>8, <2>1, <2>2, <2>3 DEF SeenInv, Dist
<1>13. HoldInv(c, s)'
  <2>1. Opened(c)'
    BY <1>1, <1>2 DEF Opened
  <2> QED BY <1>2, <1>5, <1>8, <1>12, <2>1 DEF HoldInv
<1>14. D <= Size(s) /\ cl'[c].pc \notin Leaving
  BY <1>1, <1>5, <1>7 DEF SeenInv, Leaving
<1>15. HeadInv(c, s)'
  BY <1>2, <1>4, <1>5, <1>9, <1>11, <1>13, <1>14 DEF HeadInv
<1> QED BY <1>2, <1>5, <1>15 DEF Heads

\* The head decides whether somebody is handed over: nobody only if the window
\* has nobody but the head.
LEMMA DecideHead ==
  ASSUME FewClients, SlotTypeInv, QueueInv, QueueInv', NEW s \in Sides, NEW c \in Clients,
         cl[c].side = s, Heads(c), HeadInv(c, s), DecideHandover(c)
  PROVE  HeadInv(c, s)' /\ Heads(c)' /\ cl'[c].side = s
<1>0. SlotTypeOK /\ SlotStep(c) /\ cl[c].pc = "next" /\ cl[c].k \in SlotKeys
  BY DEF SlotTypeInv, SlotStep, Release, DecideHandover, LocalsOK
<1>1. KeepsPlace(c) /\ cl'[c].pc = "drain"
  BY <1>0, PlaceKept DEF DecideHandover
<1>2. /\ cl'[c].side = cl[c].side /\ cl'[c].k = cl[c].k /\ cl'[c].role = cl[c].role
      /\ cl'[c].seen = cl[c].seen /\ cl'[c].ov = cl[c].ov
  BY <1>1 DEF KeepsPlace
<1>3. ~TakeTicket(c) /\ ~Advance(c) /\ RoleOK(c)'
  BY <1>0 DEF TakeTicket, Advance, QueueInv
<1>4. Size(s)' = Size(s) /\ current' = current
  BY <1>0, <1>3, QueueStays
<1>5. HoldInv(c, s) /\ SeenInv(c, s)
  BY <1>0 DEF HeadInv, Leaving, HoldInv, PastLoad
<1>6. current[s] \in 0 .. (TicketMod - 1) /\ cl[c].seen \in 0 .. (TicketMod - 1) /\ window[s] \in Nat
  BY <1>0, <1>5, SlotConstants DEF SlotTypeOK, SeenInv
<1>7. PICK D \in Nat : D = Dist(cl[c].seen, current[s])
                       /\ (cl[c].seen # (current[s] + 1) % TicketMod <=> D # 1)
  <2>1. /\ Dist(cl[c].seen, current[s]) \in 0 .. (TicketMod - 1)
        /\ cl[c].seen # (current[s] + 1) % TicketMod <=> Dist(cl[c].seen, current[s]) # 1
    BY <1>6, DistMod
  <2> QED BY <2>1, SlotConstants
<1>8. /\ window' = window /\ handover'[s] = (D # 1)
      /\ unique'[s] = IF D # 1 THEN unique[s] ELSE NoKey
  BY <1>0, <1>7 DEF DecideHandover, SlotTypeOK, Side
<1>9. Extent(c, s) = window[s] /\ Extent(c, s)' = window[s]
  BY <1>0, <1>1, <1>8 DEF Extent
<1>10. Inside(s, Extent(c, s))'
  <2>1. Inside(s, window[s])
    BY <1>9 DEF HeadInv
  <2>2. \A d \in Clients : /\ cl'[d].side = s /\ cl'[d].pc = "turn" /\ cl'[d].k = unique'[s]
                           /\ Dist(cl'[d].t, current'[s]) < window[s]
                           => cl'[d].ov = TRUE
    BY <1>0, <1>1, <1>4, <1>8, <2>1, InsideKeeps
  <2> QED BY <1>9, <2>2 DEF Inside, Dist
<1>11. unique'[s] = NoKey \/ handover'[s] = FALSE => window[s] <= 1
  <2>1. CASE D = 1
    BY <1>5, <1>6, <1>7, <2>1 DEF SeenInv
  <2>2. CASE D # 1
    BY <1>0, <1>5, <1>8, <2>2, SlotConstants DEF HoldInv
  <2> QED BY <2>1, <2>2
<1>12. window[s] <= Size(s) /\ (cl[c].role = "handed" => cl[c].ov = TRUE) /\ cl'[c].pc \in Leaving
  BY <1>1, <1>9 DEF HeadInv, Leaving
<1>13. HeadInv(c, s)'
  BY <1>2, <1>4, <1>9, <1>10, <1>11, <1>12 DEF HeadInv
<1> QED BY <1>1, <1>2, <1>13 DEF Heads

\* The head leaves the window, if it is inside.
LEMMA LeaveHead ==
  ASSUME FewClients, SlotTypeInv, QueueInv, QueueInv', NEW s \in Sides, NEW c \in Clients,
         cl[c].side = s, Heads(c), HeadInv(c, s), LeaveWindow(c)
  PROVE  HeadInv(c, s)' /\ Heads(c)' /\ cl'[c].side = s
<1>0. SlotTypeOK /\ SlotStep(c) /\ cl[c].pc = "drain"
  BY DEF SlotTypeInv, SlotStep, Release, LeaveWindow
<1>1. KeepsPlace(c) /\ cl'[c].pc = (IF window[s] # 0 THEN "check" ELSE "advance")
  BY <1>0, PlaceKept DEF LeaveWindow, Side
<1>2. /\ cl'[c].side = cl[c].side /\ cl'[c].k = cl[c].k /\ cl'[c].role = cl[c].role
      /\ cl'[c].seen = cl[c].seen /\ cl'[c].ov = cl[c].ov
  BY <1>1 DEF KeepsPlace
<1>3. ~TakeTicket(c) /\ ~Advance(c) /\ RoleOK(c)'
  BY <1>0 DEF TakeTicket, Advance, QueueInv
<1>4. Size(s)' = Size(s) /\ current' = current
  BY <1>0, <1>3, QueueStays
<1>5. handover' = handover /\ unique' = unique /\ window[s] \in Nat
  BY <1>0, SlotConstants DEF LeaveWindow, SlotTypeOK
<1>6. window'[s] = IF window[s] # 0 THEN window[s] - 1 ELSE 0
  BY <1>0, <1>5 DEF LeaveWindow, SlotTypeOK, Side
<1>7. PICK e \in Nat : e = Extent(c, s)' /\ e = (IF window[s] # 0 THEN window[s] ELSE 1)
  BY <1>1, <1>5, <1>6 DEF Extent
<1>8. Extent(c, s) = window[s] /\ Inside(s, window[s]) /\ window[s] <= Size(s)
  BY <1>0 DEF HeadInv, Extent
<1>9. Size(s) \in Nat /\ Size(s) >= 1
  <2>1. c \in Queue(s) /\ Queue(s) \subseteq Clients
    BY DEF Queue, Queued
  <2>2. IsFiniteSet(Queue(s)) /\ Cardinality(Queue(s)) \in Nat
    BY <2>1, QueueSize
  <2>3. Cardinality(Queue(s)) # 0
    BY <2>1, <2>2, FS_EmptySet
  <2> QED BY <2>2, <2>3 DEF Size
<1>10. Inside(s, e)
  <2>1. CASE window[s] # 0
    BY <1>7, <1>8, <2>1
  <2>2. CASE window[s] = 0
    <3>1. SUFFICES ASSUME NEW d \in Clients, cl[d].side = s, cl[d].pc = "turn",
                          Dist(cl[d].t, current[s]) < e
                   PROVE  FALSE
      BY DEF Inside
    <3>2. Dist(cl[d].t, current[s]) \in Nat /\ Dist(cl[d].t, current[s]) > 0
      BY <1>0, <3>1, Waiting
    <3> QED BY <1>7, <2>2, <3>1, <3>2
  <2> QED BY <2>1, <2>2
<1>11. Inside(s, Extent(c, s))'
  <2>2. \A d \in Clients : /\ cl'[d].side = s /\ cl'[d].pc = "turn" /\ cl'[d].k = unique'[s]
                           /\ Dist(cl'[d].t, current'[s]) < e
                           => cl'[d].ov = TRUE
    BY <1>0, <1>1, <1>4, <1>5, <1>10, InsideKeeps
  <2> QED BY <1>7, <2>2 DEF Inside, Dist
<1>12. unique'[s] = NoKey \/ handover'[s] = FALSE => e <= 1
  <2>1. unique[s] = NoKey \/ handover[s] = FALSE => window[s] <= 1
    BY <1>0, <1>8 DEF HeadInv, Leaving
  <2> QED BY <1>5, <1>7, <2>1
<1>13. e <= Size(s) /\ (cl[c].role = "handed" => cl[c].ov = TRUE) /\ cl'[c].pc \in Leaving
  BY <1>1, <1>7, <1>8, <1>9 DEF HeadInv, Leaving
<1>14. HeadInv(c, s)'
  BY <1>2, <1>4, <1>7, <1>11, <1>12, <1>13 DEF HeadInv
<1> QED BY <1>1, <1>2, <1>14 DEF Heads

\* A client whose turn comes finds its queue without a head.
LEMMA NoHeadBefore ==
  ASSUME FewClients, SlotTypeOK, QueueInv, NEW s \in Sides, NoHeadInv(s),
         NEW c \in Clients, cl[c].side = s, cl[c].pc = "turn", cl[c].t = current[s]
  PROVE  /\ window[s] <= Size(s) /\ Inside(s, window[s])
         /\ unique[s] = NoKey \/ handover[s] = FALSE => window[s] = 0
         /\ Dist(cl[c].t, current[s]) = 0
<1>1. current[s] \in Nat
  BY SlotConstants DEF SlotTypeOK
<1>2. Dist(cl[c].t, current[s]) = 0
  BY <1>1 DEF Dist
<1>3. ~\E d \in Clients : Heads(d) /\ cl[d].side = s
  BY <1>2, Waiting
<1> QED BY <1>2, <1>3 DEF NoHeadInv

\* A client's turn: it is handed over only if it is marked.
LEMMA GrantedHead ==
  ASSUME FewClients, SlotTypeInv, QueueInv, QueueInv', NEW s \in Sides, NoHeadInv(s),
         NEW c \in Clients, cl[c].side = s, Granted(c)
  PROVE  HeadInv(c, s)' /\ Heads(c)' /\ cl'[c].side = s
<1>0. /\ SlotTypeOK /\ SlotStep(c) /\ cl[c].pc = "turn"
      /\ cl[c].t = current[s] /\ unique[s] = cl[c].k
  BY DEF SlotTypeInv, SlotStep, Acquire, Granted, Side
<1>1. PICK h \in BOOLEAN : h = (handover[s] /\ window[s] # 0)
  OBVIOUS
<1>2. /\ Turns(c, [cl[c] EXCEPT !.role = IF h THEN "handed" ELSE "winner",
                                !.pc = IF ~h THEN "work" ELSE IF s = "r" THEN "publish" ELSE "load"])
      /\ handover' = [handover EXCEPT ![s] = h]
      /\ window' = window /\ unique' = unique
  BY <1>1 DEF Granted, Proceed, Side
<1>3. /\ cl'[c].pc = (IF ~h THEN "work" ELSE IF s = "r" THEN "publish" ELSE "load")
      /\ cl'[c].side = s /\ cl'[c].k = cl[c].k /\ cl'[c].role = IF h THEN "handed" ELSE "winner"
  <2>1. cl[c] \in SlotLocals
    BY <1>0 DEF SlotTypeOK
  <2>2. cl'[c] = [cl[c] EXCEPT !.role = IF h THEN "handed" ELSE "winner",
                               !.pc = IF ~h THEN "work" ELSE IF s = "r" THEN "publish" ELSE "load"]
    BY <1>0, <1>2 DEF SlotTypeOK, Turns
  <2> QED BY <2>1, <2>2 DEF SlotLocals
<1>4. cl'[c].pc \in {"work", "publish", "load"} /\ ~Issue(c) /\ cl'[c].ov = cl[c].ov
  <2>1. cl'[c].pc \in {"work", "publish", "load"} /\ ~Issue(c)
    BY <1>0, <1>3 DEF Issue
  <2> QED BY <1>0, <2>1, OwnGhost
<1>5. ~TakeTicket(c) /\ ~Advance(c) /\ RoleOK(c)'
  BY <1>0 DEF TakeTicket, Advance, QueueInv
<1>6. Size(s)' = Size(s) /\ current' = current
  BY <1>0, <1>5, QueueStays
<1>7. /\ window[s] <= Size(s) /\ Inside(s, window[s])
      /\ unique[s] = NoKey \/ handover[s] = FALSE => window[s] = 0
      /\ Dist(cl[c].t, current[s]) = 0
  BY <1>0, NoHeadBefore
<1>8. handover'[s] = h /\ handover[s] \in BOOLEAN /\ window[s] \in Nat
  BY <1>0, <1>2, SlotConstants DEF SlotTypeOK
<1>9. Extent(c, s)' = window[s]
  BY <1>2, <1>4 DEF Extent
<1>10. Inside(s, Extent(c, s))'
  <2>2. \A d \in Clients : /\ cl'[d].side = s /\ cl'[d].pc = "turn" /\ cl'[d].k = unique'[s]
                           /\ Dist(cl'[d].t, current'[s]) < window[s]
                           => cl'[d].ov = TRUE
    BY <1>0, <1>2, <1>4, <1>6, <1>7, InsideKeeps
  <2> QED BY <1>9, <2>2 DEF Inside, Dist
<1>11. h = TRUE => cl'[c].ov = TRUE
  <2>1. h = TRUE => Dist(cl[c].t, current[s]) < window[s]
    <3>1. h = TRUE => window[s] # 0
      BY <1>1
    <3>2. h = TRUE => 0 < window[s]
      BY <1>8, <3>1
    <3> QED BY <1>7, <3>2
  <2> QED BY <1>0, <1>4, <1>7, <2>1 DEF Inside
<1>12. h = FALSE => window[s] = 0
  BY <1>1, <1>7, <1>8
<1>13. HoldInv(c, s)'
  <2>1. cl'[c].role = "handed" => handover'[s] = TRUE
    BY <1>3, <1>8
  <2>2. cl'[c].role = "winner" => handover'[s] = FALSE /\ window'[s] = 0
    BY <1>2, <1>3, <1>8, <1>12
  <2> QED BY <1>0, <1>2, <1>3, <1>4, <2>1, <2>2 DEF HoldInv, PastLoad
<1>14. cl'[c].role = "handed" => cl'[c].ov = TRUE
  BY <1>3, <1>11
<1>15. HeadInv(c, s)'
  BY <1>4, <1>6, <1>7, <1>9, <1>10, <1>13, <1>14 DEF HeadInv, Leaving
<1> QED BY <1>3, <1>15 DEF Heads

\* Or it meets a conflict, and passes the queue on.
LEMMA ConflictHead ==
  ASSUME FewClients, SlotTypeInv, QueueInv, QueueInv', NEW s \in Sides, NoHeadInv(s),
         NEW c \in Clients, cl[c].side = s, TurnConflict(c)
  PROVE  HeadInv(c, s)' /\ Heads(c)' /\ cl'[c].side = s
<1>0. SlotTypeOK /\ SlotStep(c) /\ cl[c].pc = "turn" /\ cl[c].t = current[s]
  BY DEF SlotTypeInv, SlotStep, Acquire, TurnConflict, Side
<1>1. window' = window /\ unique' = unique /\ handover' = handover
  BY DEF TurnConflict
<1>2. cl'[c].pc = "drain" /\ cl'[c].side = s /\ cl'[c].role = "direct"
  <2>1. cl[c] \in SlotLocals
    BY <1>0 DEF SlotTypeOK
  <2>2. cl'[c] = [cl[c] EXCEPT !.role = "direct", !.pc = "drain"]
    BY <1>0 DEF TurnConflict, SlotTypeOK, Turns
  <2> QED BY <2>1, <2>2 DEF SlotLocals
<1>3. ~TakeTicket(c) /\ ~Advance(c) /\ RoleOK(c)'
  BY <1>0 DEF TakeTicket, Advance, QueueInv
<1>4. Size(s)' = Size(s) /\ current' = current
  BY <1>0, <1>3, QueueStays
<1>5. /\ window[s] <= Size(s) /\ Inside(s, window[s])
      /\ unique[s] = NoKey \/ handover[s] = FALSE => window[s] = 0
  BY <1>0, NoHeadBefore
<1>6. Extent(c, s)' = window[s]
  BY <1>1, <1>2 DEF Extent
<1>7. Inside(s, Extent(c, s))'
  <2>2. \A d \in Clients : /\ cl'[d].side = s /\ cl'[d].pc = "turn" /\ cl'[d].k = unique'[s]
                           /\ Dist(cl'[d].t, current'[s]) < window[s]
                           => cl'[d].ov = TRUE
    BY <1>0, <1>1, <1>2, <1>4, <1>5, InsideKeeps
  <2> QED BY <1>6, <2>2 DEF Inside, Dist
<1>8. unique'[s] = NoKey \/ handover'[s] = FALSE => window[s] <= 1
  BY <1>1, <1>5
<1>9. HeadInv(c, s)'
  BY <1>2, <1>4, <1>5, <1>6, <1>7, <1>8 DEF HeadInv, Leaving
<1> QED BY <1>2, <1>9 DEF Heads

\* The other clients keep being, or not being, the head of the queue.
LEMMA OthersHead ==
  ASSUME SlotTypeOK, NEW c \in Clients, SlotStep(c), NEW d \in Clients, d # c
  PROVE  /\ Heads(d)' <=> Heads(d)
         /\ cl'[d].pc = cl[d].pc /\ cl'[d].side = cl[d].side /\ cl'[d].k = cl[d].k
         /\ cl'[d].role = cl[d].role /\ cl'[d].seen = cl[d].seen
         /\ cl[d].ov = TRUE => cl'[d].ov = TRUE
<1>1. KeepsLocals(d)
  BY OthersKeep
<1> QED BY <1>1, OthersGhost DEF KeepsLocals, Heads

(***************************************************************************)
(* A step that is not the head's, and leaves the window and the handover   *)
(* alone, keeps the invariant if it leaves the clients within reach of the *)
(* window, and of the tail a winner has seen, marked.                      *)
(***************************************************************************)
LEMMA Bystander ==
  ASSUME FewClients, SlotTypeInv, NEW s \in Sides, OverlapInv(s), OneSide(s)',
         NEW c \in Clients, SlotStep(c),
         cl[c].side = s => ~Heads(c), cl'[c].side = s => ~Heads(c)',
         current' = current, window' = window, handover' = handover, Size(s)' >= Size(s),
         Size(s)' \in Nat,
         \/ unique'[s] = unique[s]
         \/ unique[s] = NoKey /\ ~(\E h \in Clients : cl[h].side = s /\ Heads(h) /\ cl[h].pc \notin Leaving),
         \A h \in Clients : cl[h].side = s /\ Heads(h) /\ h # c => Inside(s, Extent(h, s))',
         \A h \in Clients : cl[h].side = s /\ Heads(h) /\ h # c /\ SeenInv(h, s) /\ cl[h].role = "winner"
                              => Marked(h, s)',
         (\A h \in Clients : cl[h].side = s => ~Heads(h)) => Inside(s, window[s])'
  PROVE  OverlapInv(s)'
<1>0. SlotTypeOK
  BY DEF SlotTypeInv
<1>1. Size(s) \in Nat /\ window[s] \in Nat
  BY <1>0, SizeNat, SlotConstants DEF SlotTypeOK
<1>2. ASSUME NEW h \in Clients, cl'[h].side = s, Heads(h)' PROVE HeadInv(h, s)'
  <2>1. h # c
    BY <1>2
  <2>2. /\ Heads(h) /\ cl'[h].pc = cl[h].pc /\ cl[h].side = s /\ cl'[h].side = s /\ cl'[h].k = cl[h].k
        /\ cl'[h].role = cl[h].role /\ cl'[h].seen = cl[h].seen
        /\ cl[h].ov = TRUE => cl'[h].ov = TRUE
    BY <1>0, <1>2, <2>1, OthersHead
  <2>3. HeadInv(h, s)
    BY <2>2 DEF OverlapInv
  <2>4. PICK e \in Nat : e = Extent(h, s) /\ e = Extent(h, s)'
    BY <1>1, <2>2 DEF Extent
  <2>5. e <= Size(s)'
    BY <1>1, <2>3, <2>4 DEF HeadInv
  <2>6. Inside(s, Extent(h, s))'
    BY <2>1, <2>2 DEF OverlapInv, HeadInv
  <2>7. cl'[h].role = "handed" => cl'[h].ov = TRUE
    BY <2>2, <2>3 DEF HeadInv
  <2>8. CASE cl[h].pc \in Leaving
    <3>1. unique'[s] = NoKey \/ handover'[s] = FALSE => e <= 1
      BY <2>3, <2>4, <2>8 DEF HeadInv
    <3> QED BY <2>2, <2>4, <2>5, <2>6, <2>7, <2>8, <3>1 DEF HeadInv
  <2>9. CASE cl[h].pc \notin Leaving
    <3>1. HoldInv(h, s) /\ unique'[s] = unique[s]
      BY <2>2, <2>3, <2>9 DEF HeadInv
    <3>2. ASSUME cl[h].pc \in PastLoad PROVE SeenInv(h, s)'
      <4>1. SeenInv(h, s)
        BY <3>1, <3>2 DEF HoldInv
      <4>2. cl[h].role = "winner" => Marked(h, s)'
        BY <2>1, <2>2, <4>1
      <4>3. current[s] \in 0 .. (TicketMod - 1) /\ cl[h].seen \in 0 .. (TicketMod - 1)
        BY <1>0, <4>1 DEF SlotTypeOK, SeenInv
      <4>4. PICK D \in Nat : D = Dist(cl[h].seen, current[s]) /\ D = Dist(cl'[h].seen, current'[s])
        <5>1. Dist(cl[h].seen, current[s]) \in 0 .. (TicketMod - 1)
          BY <4>3, DistMod
        <5> QED BY <2>2, <5>1, SlotConstants
      <4>5. D <= Size(s)' /\ (window'[s] <= D \/ D = 0)
        BY <1>1, <4>1, <4>4 DEF SeenInv
      <4> QED BY <2>2, <4>2, <4>3, <4>4, <4>5 DEF SeenInv, Dist
    <3>3. HoldInv(h, s)'
      BY <2>2, <3>1, <3>2 DEF HoldInv, Opened
    <3> QED BY <2>2, <2>4, <2>5, <2>6, <2>7, <2>9, <3>3 DEF HeadInv
  <2> QED BY <2>8, <2>9
<1>3. NoHeadInv(s)'
  <2>1. SUFFICES ASSUME \A h \in Clients : cl'[h].side = s => ~Heads(h)'
                 PROVE  /\ window'[s] <= Size(s)' /\ Inside(s, window[s])'
                        /\ unique'[s] = NoKey \/ handover'[s] = FALSE => window'[s] = 0
    BY DEF NoHeadInv
  <2>2. ASSUME NEW h \in Clients, cl[h].side = s PROVE ~Heads(h)
    BY <1>0, <2>1, <2>2, OthersHead
  <2>3. /\ window[s] <= Size(s)
        /\ unique[s] = NoKey \/ handover[s] = FALSE => window[s] = 0
    BY <2>2 DEF OverlapInv, NoHeadInv
  <2> QED BY <1>1, <2>2, <2>3
<1> QED BY <1>2, <1>3 DEF OverlapInv

\* A client that joins the queue stands behind the window, and behind the tail
\* that the head has seen.
LEMMA JoinKeeps ==
  ASSUME FewClients, SlotTypeInv, QueueInv, NEW s \in Sides, OverlapInv(s), OneSide(s)',
         NEW c \in Clients, TakeTicket(c)
  PROVE  OverlapInv(s)'
<1>0. SlotTypeOK /\ SlotStep(c) /\ cl[c].pc = "ticket" /\ cl[c].role = "none"
  BY DEF SlotTypeInv, SlotStep, Acquire, TakeTicket, QueueInv, RoleOK
<1>1. cl[c].side = s
  BY <1>0 DEF OverlapInv, OneSide
<1>2. /\ cl'[c].pc = "turn" /\ cl'[c].side = s /\ cl'[c].t = ticket[s] /\ cl'[c].role = "none"
  BY <1>0, <1>1, TicketFields
<1>3. ~Heads(c) /\ ~Heads(c)' /\ ~Queued(c) /\ Queued(c)'
  BY <1>0, <1>2 DEF Heads, Queued
<1>4. /\ current' = current /\ window' = window /\ handover' = handover /\ unique' = unique
  BY DEF TakeTicket
<1>5. Size(s)' = Size(s) + 1 /\ Size(s) \in Nat /\ Size(s) < TicketMod
  <2>1. \A d \in Clients : d # c => KeepsLocals(d)
    BY <1>0, OthersKeep
  <2>2. \A d \in Clients : d # c => Queued(d)' = Queued(d)
    BY <2>1 DEF KeepsLocals, Queued, Heads
  <2>3. PICK Q : Q = Queue(s)
    OBVIOUS
  <2>4. \A d \in Clients : d \in Queue(s)' <=> (d \in Queue(s) \/ d = c)
    BY <1>2, <1>3, <2>1, <2>2 DEF Queue, KeepsLocals
  <2>5. Queue(s)' = Q \cup {c} /\ c \notin Q /\ Q \subseteq Clients /\ Q \cup {c} \subseteq Clients
    BY <1>3, <2>3, <2>4 DEF Queue
  <2>6. IsFiniteSet(Q) /\ Cardinality(Q) \in Nat /\ Cardinality(Q \cup {c}) <= TicketMod
    BY <2>5, QueueSize
  <2>7. Cardinality(Q \cup {c}) = Cardinality(Q) + 1
    BY <2>5, <2>6, FS_AddElement
  <2> QED BY <2>3, <2>5, <2>6, <2>7, SlotConstants DEF Size
<1>6. Dist(ticket[s], current[s]) = Size(s)
  BY <1>0, <1>5, TailSeen
<1>7. ASSUME NEW e \in Nat, e <= Size(s), NEW d \in Clients, cl'[d].side = s, cl'[d].pc = "turn",
             Dist(cl'[d].t, current'[s]) < e
      PROVE  /\ cl[d].side = s /\ cl[d].pc = "turn" /\ cl'[d].k = cl[d].k
             /\ Dist(cl[d].t, current[s]) < e
             /\ cl[d].ov = TRUE => cl'[d].ov = TRUE
  <2>1. d # c
    <3>1. Dist(cl'[c].t, current'[s]) = Size(s)
      BY <1>2, <1>4, <1>6
    <3> QED BY <1>5, <1>7, <3>1
  <2> QED BY <1>0, <1>4, <1>7, <2>1, WaitersKeep
<1>8. window[s] \in Nat
  BY <1>0, SlotConstants DEF SlotTypeOK
<1>9. ASSUME NEW h \in Clients, cl[h].side = s, Heads(h), h # c PROVE Inside(s, Extent(h, s))'
  <2>1. HeadInv(h, s) /\ cl'[h].pc = cl[h].pc
    BY <1>0, <1>9, OthersHead DEF OverlapInv
  <2>2. PICK e \in Nat : e = Extent(h, s) /\ e = Extent(h, s)'
    BY <1>4, <1>8, <2>1 DEF Extent
  <2>3. e <= Size(s) /\ Inside(s, e)
    BY <2>1, <2>2 DEF HeadInv
  <2>4. \A d \in Clients : /\ cl'[d].side = s /\ cl'[d].pc = "turn" /\ cl'[d].k = unique'[s]
                           /\ Dist(cl'[d].t, current'[s]) < e
                           => cl'[d].ov = TRUE
    BY <1>4, <1>7, <2>3 DEF Inside
  <2> QED BY <2>2, <2>4 DEF Inside, Dist
<1>10. ASSUME NEW h \in Clients, cl[h].side = s, Heads(h), h # c, SeenInv(h, s), cl[h].role = "winner"
       PROVE  Marked(h, s)'
  <2>1. cl'[h].seen = cl[h].seen /\ cl'[h].k = cl[h].k
    BY <1>0, <1>10, OthersHead
  <2>2. current[s] \in 0 .. (TicketMod - 1) /\ cl[h].seen \in 0 .. (TicketMod - 1)
    BY <1>0, <1>10 DEF SlotTypeOK, SeenInv
  <2>3. Dist(cl[h].seen, current[s]) \in 0 .. (TicketMod - 1)
    BY <2>2, DistMod
  <2>4. PICK e \in Nat : e = Dist(cl[h].seen, current[s]) /\ e = Dist(cl'[h].seen, current'[s])
    BY <1>4, <2>1, <2>3, SlotConstants
  <2>5. e <= Size(s) /\ Marked(h, s)
    BY <1>10, <2>4 DEF SeenInv
  <2>6. \A d \in Clients : /\ cl'[d].side = s /\ cl'[d].pc = "turn" /\ cl'[d].k = cl'[h].k
                           /\ Dist(cl'[d].t, current'[s]) < e
                           => cl'[d].ov = TRUE
    BY <1>7, <2>1, <2>4, <2>5 DEF Marked
  <2> QED BY <2>4, <2>6 DEF Marked, Dist
<1>11. (\A h \in Clients : cl[h].side = s => ~Heads(h)) => Inside(s, window[s])'
  <2>1. SUFFICES ASSUME \A h \in Clients : cl[h].side = s => ~Heads(h) PROVE Inside(s, window[s])'
    OBVIOUS
  <2>2. window[s] <= Size(s) /\ Inside(s, window[s])
    BY <2>1 DEF OverlapInv, NoHeadInv
  <2>3. \A d \in Clients : /\ cl'[d].side = s /\ cl'[d].pc = "turn" /\ cl'[d].k = unique'[s]
                           /\ Dist(cl'[d].t, current'[s]) < window[s]
                           => cl'[d].ov = TRUE
    BY <1>4, <1>7, <1>8, <2>2 DEF Inside
  <2> QED BY <1>4, <2>3 DEF Inside, Dist
<1>12. Size(s)' \in Nat /\ Size(s)' >= Size(s)
  BY <1>5
<1> QED BY <1>0, <1>3, <1>4, <1>9, <1>10, <1>11, <1>12, Bystander

\* Passing the queue on shifts the window with the ticket being served.
LEMMA AdvanceKeeps ==
  ASSUME FewClients, SlotTypeInv, QueueInv, NEW s \in Sides, OverlapInv(s), OneSide(s)',
         NEW c \in Clients, Advance(c)
  PROVE  OverlapInv(s)'
<1>0. SlotTypeOK /\ SlotStep(c) /\ cl[c].pc = "advance"
  BY DEF SlotTypeInv, SlotStep, Release, Advance
<1>1. cl[c].side = s /\ Heads(c) /\ Queued(c)
  BY <1>0 DEF OverlapInv, OneSide, Heads, Queued
<1>2. ~Heads(c)' /\ ~Queued(c)' /\ cl'[c].pc # "turn"
  <2>1. CASE cl[c].role = "direct"
    BY <1>0, <2>1, GoFields DEF Advance, Queued, Heads
  <2>2. CASE cl[c].role # "direct"
    BY <1>0, <2>2, DoneFields DEF Advance, Queued, Heads
  <2> QED BY <2>1, <2>2
<1>3. \A d \in Clients : d # c => KeepsLocals(d)
  BY <1>0, OthersKeep
<1>4. \A d \in Clients : d # c => Queued(d)' = Queued(d) /\ Heads(d)' = Heads(d)
  BY <1>3 DEF KeepsLocals, Queued, Heads
<1>5. /\ window' = window /\ handover' = handover /\ unique' = unique
      /\ current' = [current EXCEPT ![s] = (current[s] + 1) % TicketMod]
      /\ window[s] \in Nat /\ current[s] \in 0 .. (TicketMod - 1)
  BY <1>0, <1>1, SlotConstants DEF Advance, Side, SlotTypeOK
<1>6. current'[s] = IF current[s] = TicketMod - 1 THEN 0 ELSE current[s] + 1
  BY <1>0, <1>5, NextTicket DEF SlotTypeOK
<1>7. Size(s) \in Nat /\ Size(s)' = Size(s) - 1
  <2>1. PICK Q : Q = Queue(s)
    OBVIOUS
  <2>2. \A d \in Clients : d \in Queue(s)' <=> (d \in Queue(s) /\ d # c)
    BY <1>2, <1>3, <1>4 DEF Queue, KeepsLocals
  <2>3. Queue(s)' = Q \ {c} /\ c \in Q /\ Q \subseteq Clients
    BY <1>1, <2>1, <2>2 DEF Queue
  <2>4. IsFiniteSet(Q) /\ Cardinality(Q) \in Nat
    BY <2>3, QueueSize
  <2>5. Cardinality(Q \ {c}) = Cardinality(Q) - 1
    BY <2>3, <2>4, FS_RemoveElement
  <2> QED BY <2>1, <2>3, <2>4, <2>5 DEF Size
<1>8. HeadInv(c, s) /\ Extent(c, s) = window[s] + 1
  BY <1>0, <1>1 DEF OverlapInv, Extent
<1>9. SlotExclusive
  BY <1>0, QueueExclusive
<1>10. \A h \in Clients : cl'[h].side = s => ~Heads(h)'
  BY <1>1, <1>2, <1>3, <1>4, <1>9 DEF SlotExclusive, Side, KeepsLocals
<1>11. \A d \in Clients : /\ cl'[d].side = s /\ cl'[d].pc = "turn" /\ cl'[d].k = unique'[s]
                          /\ Dist(cl'[d].t, current'[s]) < window[s]
                          => cl'[d].ov = TRUE
  <2>1. SUFFICES ASSUME NEW d \in Clients, cl'[d].side = s, cl'[d].pc = "turn", cl'[d].k = unique'[s],
                        Dist(cl'[d].t, current'[s]) < window[s]
                 PROVE  cl'[d].ov = TRUE
    OBVIOUS
  <2>2. d # c
    BY <1>2, <2>1
  <2>3. /\ cl[d].side = s /\ cl[d].pc = "turn" /\ cl'[d].t = cl[d].t /\ cl'[d].k = cl[d].k
        /\ cl[d].ov = TRUE => cl'[d].ov = TRUE
    BY <1>0, <2>1, <2>2, WaitersKeep
  <2>4. /\ cl[d].t \in 0 .. (TicketMod - 1)
        /\ Dist(cl[d].t, current[s]) \in Nat /\ Dist(cl[d].t, current[s]) > 0
    BY <1>0, <1>1, <2>3, Waiting
  <2>5. PICK t \in 0 .. (TicketMod - 1), x \in 0 .. (TicketMod - 1) : t = cl[d].t /\ x = current[s]
    BY <1>5, <2>4
  <2>6. Dist(t, x) > 0 /\ Dist(t, IF x = TicketMod - 1 THEN 0 ELSE x + 1) < window[s]
    BY <1>6, <2>1, <2>3, <2>4, <2>5
  <2>7. Dist(t, x) < window[s] + 1
    BY <1>5, <2>6, SlotConstants DEF Dist
  <2>8. Dist(cl[d].t, current[s]) < Extent(c, s)
    BY <1>8, <2>5, <2>7
  <2> QED BY <1>5, <1>8, <2>1, <2>3, <2>8 DEF HeadInv, Inside
<1>12. /\ window'[s] <= Size(s)'
       /\ unique'[s] = NoKey \/ handover'[s] = FALSE => window'[s] = 0
  <2>1. window[s] + 1 <= Size(s) /\ (unique[s] = NoKey \/ handover[s] = FALSE => window[s] + 1 <= 1)
    BY <1>0, <1>8 DEF HeadInv, Leaving
  <2> QED BY <1>5, <1>7, <2>1
<1>13. NoHeadInv(s)'
  BY <1>5, <1>11, <1>12 DEF NoHeadInv, Inside, Dist
<1> QED BY <1>10, <1>13 DEF OverlapInv

\* The steps of a client that is not in the queue and does not join it.
Aside(c) ==
  \/ Issue(c) \/ ClaimKey(c) \/ Deposit(c)
  \/ GetCombiningValue(c) \/ WriteLeaf(c) \/ ReadLeaf(c) \/ Publish(c)

\* They keep the invariant; a key is claimed only when the window is empty but
\* for a head that leaves it.
LEMMA AsideKeeps ==
  ASSUME FewClients, SlotTypeInv, QueueInv, QueueInv', NEW s \in Sides, OverlapInv(s), OneSide(s)',
         NEW c \in Clients, ~Heads(c), Aside(c)
  PROVE  OverlapInv(s)'
<1>0. SlotTypeOK /\ SlotStep(c) /\ ~TakeTicket(c) /\ ~Advance(c) /\ cl[c].pc # "turn"
  BY DEF SlotTypeInv, Aside, SlotStep, Acquire, AtLeaf, Release, TakeTicket, Advance, Issue, ClaimKey,
         Deposit, GetCombiningValue, WriteLeaf, ReadLeaf, Publish
<1>1. RoleOK(c) /\ RoleOK(c)'
  BY DEF QueueInv
<1>2. ~Heads(c)' /\ cl'[c].pc # "turn"
  BY <1>0, <1>1, OwnQuiet DEF QueuedSame, Queued
<1>3. Size(s)' = Size(s) /\ current' = current
  BY <1>0, <1>1, QueueStays
<1>4. window' = window /\ handover' = handover /\ window[s] \in Nat
  BY <1>0, SlotConstants
  DEF Aside, Issue, ClaimKey, Deposit, GetCombiningValue, WriteLeaf, ReadLeaf, Publish, SlotTypeOK
<1>5. unique'[s] = unique[s] \/ unique[s] = NoKey
  <2>1. CASE ClaimKey(c)
    <3>1. cl[c].side = s
      BY <2>1 DEF ClaimKey, OverlapInv, OneSide
    <3> QED BY <1>0, <2>1, <3>1 DEF ClaimKey, SlotTypeOK, Side
  <2>2. CASE ~ClaimKey(c)
    BY <2>2 DEF Aside, Issue, Deposit, GetCombiningValue, WriteLeaf, ReadLeaf, Publish
  <2> QED BY <2>1, <2>2
<1>6. ASSUME NEW h \in Clients, cl[h].side = s, Heads(h), cl[h].pc \notin Leaving
      PROVE  unique[s] # NoKey
  <2>1. unique[s] = cl[h].k
    BY <1>6 DEF OverlapInv, HeadInv, HoldInv
  <2>2. cl[h].pc # "idle"
    BY <1>6 DEF Heads, QueueInv, RoleOK, Leaving
  <2> QED BY <2>1, <2>2, SlotConstants DEF SlotTypeInv, LocalsOK
<1>7. ASSUME NEW e, Inside(s, e), unique'[s] = unique[s]
      PROVE  \A d \in Clients : /\ cl'[d].side = s /\ cl'[d].pc = "turn" /\ cl'[d].k = unique'[s]
                                /\ Dist(cl'[d].t, current'[s]) < e
                                => cl'[d].ov = TRUE
  BY <1>0, <1>2, <1>3, <1>7, InsideKeeps
<1>8. ASSUME NEW d \in Clients, cl'[d].side = s, cl'[d].pc = "turn"
      PROVE  /\ Dist(cl'[d].t, current'[s]) \in Nat
             /\ (\E h \in Clients : Heads(h) /\ cl[h].side = s) => Dist(cl'[d].t, current'[s]) > 0
  <2>1. d # c
    BY <1>2, <1>8
  <2>2. cl[d].side = s /\ cl[d].pc = "turn" /\ cl'[d].t = cl[d].t
    BY <1>0, <1>8, <2>1, WaitersKeep
  <2> QED BY <1>0, <1>3, <2>2, Waiting
<1>9. ASSUME NEW h \in Clients, cl[h].side = s, Heads(h), h # c PROVE Inside(s, Extent(h, s))'
  <2>1. HeadInv(h, s) /\ cl'[h].pc = cl[h].pc
    BY <1>0, <1>9, OthersHead DEF OverlapInv
  <2>2. PICK e \in Nat : e = Extent(h, s) /\ e = Extent(h, s)'
    BY <1>4, <2>1 DEF Extent
  <2>3. \A d \in Clients : /\ cl'[d].side = s /\ cl'[d].pc = "turn" /\ cl'[d].k = unique'[s]
                           /\ Dist(cl'[d].t, current'[s]) < e
                           => cl'[d].ov = TRUE
    <3>1. CASE unique'[s] = unique[s]
      BY <1>7, <2>1, <2>2, <3>1 DEF HeadInv
    <3>2. CASE unique[s] = NoKey
      <4>1. e <= 1
        BY <1>6, <1>9, <2>1, <2>2, <3>2 DEF HeadInv
      <4>2. SUFFICES ASSUME NEW d \in Clients, cl'[d].side = s, cl'[d].pc = "turn",
                            Dist(cl'[d].t, current'[s]) < e
                     PROVE  FALSE
        OBVIOUS
      <4>3. Dist(cl'[d].t, current'[s]) \in Nat /\ Dist(cl'[d].t, current'[s]) > 0
        BY <1>8, <1>9, <4>2
      <4> QED BY <4>1, <4>2, <4>3
    <3> QED BY <1>5, <3>1, <3>2
  <2> QED BY <2>2, <2>3 DEF Inside, Dist
<1>10. ASSUME NEW h \in Clients, h # c, SeenInv(h, s), cl[h].role = "winner" PROVE Marked(h, s)'
  <2>1. cl'[h].k = cl[h].k /\ cl'[h].seen = cl[h].seen
    BY <1>0, <1>10, OthersHead
  <2> QED BY <1>0, <1>2, <1>3, <1>10, <2>1, MarkedKeeps DEF SeenInv
<1>11. (\A h \in Clients : cl[h].side = s => ~Heads(h)) => Inside(s, window[s])'
  <2>1. SUFFICES ASSUME \A h \in Clients : cl[h].side = s => ~Heads(h) PROVE Inside(s, window[s])'
    OBVIOUS
  <2>2. Inside(s, window[s]) /\ (unique[s] = NoKey => window[s] = 0)
    BY <2>1 DEF OverlapInv, NoHeadInv
  <2>3. \A d \in Clients : /\ cl'[d].side = s /\ cl'[d].pc = "turn" /\ cl'[d].k = unique'[s]
                           /\ Dist(cl'[d].t, current'[s]) < window[s]
                           => cl'[d].ov = TRUE
    <3>1. CASE unique'[s] = unique[s]
      BY <1>7, <2>2, <3>1
    <3>2. CASE unique[s] = NoKey
      BY <1>8, <2>2, <3>2
    <3> QED BY <1>5, <3>1, <3>2
  <2> QED BY <1>4, <2>3 DEF Inside, Dist
<1>12. Size(s)' \in Nat /\ Size(s)' >= Size(s)
  BY <1>3, SizeNat
<1>13. \/ unique'[s] = unique[s]
       \/ unique[s] = NoKey /\ ~(\E h \in Clients : cl[h].side = s /\ Heads(h) /\ cl[h].pc \notin Leaving)
  BY <1>5, <1>6
<1> QED BY <1>0, <1>2, <1>3, <1>4, <1>9, <1>10, <1>11, <1>12, <1>13, Bystander

\* Every step of a client keeps the invariant of the side in use.
LEMMA StepOverlap ==
  ASSUME FewClients, SlotTypeInv, QueueInv, SlotTypeInv', QueueInv', NEW s \in Sides, OverlapInv(s),
         NEW c \in Clients, SlotStep(c)
  PROVE  OverlapInv(s)'
<1>0. SlotTypeOK /\ SlotTypeOK' /\ OneSide(s) /\ NoHeadInv(s)
  BY DEF SlotTypeInv, OverlapInv
<1>1. OneSide(s)'
  BY <1>0, OneSideKeeps
<1>2. SlotExclusive'
  BY <1>0, QueueExclusive, PTL
<1>3. cl[c].pc # "idle" => cl[c].side = s
  BY <1>0 DEF OneSide
<1>4. ASSUME HeadInv(c, s)', Heads(c)', cl'[c].side = s PROVE OverlapInv(s)'
  BY <1>1, <1>2, <1>4, HeadRestores
<1>5. ASSUME Heads(c), cl[c].pc # "idle" PROVE cl[c].side = s /\ HeadInv(c, s)
  BY <1>3, <1>5 DEF OverlapInv
<1>6. CASE TakeTicket(c)
  BY <1>1, <1>6, JoinKeeps
<1>7. CASE Advance(c)
  BY <1>1, <1>7, AdvanceKeeps
<1>8. CASE Granted(c)
  <2>1. cl[c].side = s
    BY <1>3, <1>8 DEF Granted
  <2> QED BY <1>0, <1>4, <1>8, <2>1, GrantedHead
<1>9. CASE TurnConflict(c)
  <2>1. cl[c].side = s
    BY <1>3, <1>9 DEF TurnConflict
  <2> QED BY <1>0, <1>4, <1>9, <2>1, ConflictHead
<1>10. CASE LoadTickets(c)
  <2>1. Heads(c) /\ cl[c].pc # "idle"
    BY <1>10 DEF LoadTickets, Heads, QueueInv, RoleOK
  <2> QED BY <1>4, <1>5, <1>10, <2>1, LoadHead
<1>11. CASE SetOwnWindow(c)
  <2>1. Heads(c) /\ cl[c].pc # "idle"
    BY <1>11 DEF SetOwnWindow, Heads, QueueInv, RoleOK
  <2> QED BY <1>4, <1>5, <1>11, <2>1, OpenHead
<1>12. CASE DecideHandover(c)
  <2>1. Heads(c) /\ cl[c].pc # "idle"
    BY <1>12 DEF DecideHandover, Heads, QueueInv, RoleOK
  <2> QED BY <1>4, <1>5, <1>12, <2>1, DecideHead
<1>13. CASE LeaveWindow(c)
  <2>1. Heads(c) /\ cl[c].pc # "idle"
    BY <1>13 DEF LeaveWindow, Heads
  <2> QED BY <1>4, <1>5, <1>13, <2>1, LeaveHead
<1>14. CASE QuietAtHead(c) /\ Heads(c)
  <2>1. cl[c].pc # "idle"
    BY <1>14 DEF QuietAtHead, GetCombiningValue, WriteLeaf, ReadLeaf, Publish,
                 OpenWindow, SetOtherWindow, CheckWindow, CloseWindow
  <2> QED BY <1>4, <1>5, <1>14, <2>1, QuietHead
<1>15. CASE Aside(c) /\ ~Heads(c)
  BY <1>1, <1>15, AsideKeeps
<1>16. CASE (OpenWindow(c) \/ SetOtherWindow(c) \/ CheckWindow(c) \/ CloseWindow(c)) /\ ~Heads(c)
  BY <1>16 DEF OpenWindow, SetOtherWindow, CheckWindow, CloseWindow, Heads, QueueInv, RoleOK
<1>17. CASE (Issue(c) \/ ClaimKey(c) \/ Deposit(c)) /\ Heads(c)
  BY <1>17 DEF Issue, ClaimKey, Deposit, Heads, QueueInv, RoleOK
<1> QED
  BY <1>6, <1>7, <1>8, <1>9, <1>10, <1>11, <1>12, <1>13, <1>14, <1>15, <1>16, <1>17
  DEF SlotStep, Acquire, AtLeaf, Release, QuietAtHead, Aside

\* So does a stuttering step.
LEMMA StutterOverlap ==
  ASSUME NEW s \in Sides, OverlapInv(s), UNCHANGED slotVars
  PROVE  OverlapInv(s)'
<1>1. cl' = cl /\ todo' = todo /\ window' = window /\ unique' = unique /\ handover' = handover
      /\ current' = current
  BY DEF slotVars
<1>2. Size(s)' = Size(s)
  BY <1>1 DEF Size, Queue, Queued, Heads
<1>3. OneSide(s)'
  BY <1>1 DEF OverlapInv, OneSide
<1>4. \A h \in Clients : (Heads(h)' <=> Heads(h)) /\ Extent(h, s)' = Extent(h, s)
                         /\ (Marked(h, s)' <=> Marked(h, s)) /\ (Opened(h)' <=> Opened(h))
  BY <1>1 DEF Heads, Extent, Marked, Opened, Dist
<1>5. \A e : Inside(s, e) => \A d \in Clients :
                               /\ cl'[d].side = s /\ cl'[d].pc = "turn" /\ cl'[d].k = unique'[s]
                               /\ Dist(cl'[d].t, current'[s]) < e
                               => cl'[d].ov = TRUE
  BY <1>1 DEF Inside
<1>6. NoHeadInv(s)'
  BY <1>1, <1>2, <1>4, <1>5 DEF OverlapInv, NoHeadInv, Inside, Dist
<1>7. ASSUME NEW h \in Clients, cl'[h].side = s, Heads(h)' PROVE HeadInv(h, s)'
  <2>1. HeadInv(h, s)
    BY <1>1, <1>4, <1>7 DEF OverlapInv
  <2>2. Inside(s, Extent(h, s))'
    <3>1. PICK e : e = Extent(h, s) /\ e = Extent(h, s)'
      BY <1>4
    <3>2. Inside(s, e)
      BY <2>1, <3>1 DEF HeadInv
    <3> QED BY <1>5, <3>1, <3>2 DEF Inside, Dist
  <2>3. SeenInv(h, s) => SeenInv(h, s)'
    BY <1>1, <1>2, <1>4 DEF SeenInv, Dist
  <2>4. HoldInv(h, s) => HoldInv(h, s)'
    BY <1>1, <1>4, <2>3 DEF HoldInv
  <2> QED BY <1>1, <1>2, <1>4, <2>1, <2>2, <2>4 DEF HeadInv
<1> QED BY <1>3, <1>6, <1>7 DEF OverlapInv

\* Every program the clients may be given only reads or only writes.
OneSidedPrograms ==
  \A p \in Programs : \E s \in Sides : \A c \in Clients : \A i \in 1 .. Len(p[c]) : p[c][i].side = s

\* The invariant holds initially, for the side that the program uses.
LEMMA InitOverlap ==
  ASSUME FewClients, OneSidedPrograms, SlotInit
  PROVE  \E s \in Sides : OverlapInv(s)
<1>1. PICK s \in Sides : \A c \in Clients : \A i \in 1 .. Len(todo[c]) : todo[c][i].side = s
  BY DEF SlotInit, OneSidedPrograms
<1>2. \A c \in Clients : cl[c].pc = "idle" /\ cl[c].role = "none"
  BY DEF SlotInit, IdleSlot
<1>3. \A c \in Clients : ~Heads(c)
  BY <1>2 DEF Heads
<1>4. window[s] = 0 /\ Size(s) \in Nat
  BY SizeNat DEF SlotInit
<1>5. window[s] <= Size(s) /\ Inside(s, window[s])
  BY <1>2, <1>4 DEF Inside
<1> QED BY <1>1, <1>2, <1>3, <1>4, <1>5 DEF OverlapInv, OneSide, NoHeadInv

\* Whoever is handed over is marked.
LEMMA OverlapMarks ==
  ASSUME QueueInv, NEW s \in Sides, OverlapInv(s)
  PROVE  WindowOverlaps
<1>1. SUFFICES ASSUME NEW c \in Clients, cl[c].role = "handed" PROVE cl[c].ov = TRUE
  BY DEF WindowOverlaps
<1>2. cl[c].pc # "idle" /\ Heads(c)
  BY <1>1 DEF QueueInv, RoleOK, Heads
<1>3. cl[c].side = s
  BY <1>2 DEF OverlapInv, OneSide
<1> QED BY <1>1, <1>2, <1>3 DEF OverlapInv, HeadInv

\* In a slot that only readers or only writers use, an operation is handed over
\* only the result of a winner of its key that was still in progress when the
\* operation was issued, through every wrap of the tickets and every reuse of
\* the window: the one-sided case of the identical time window of
\* acquire_local_*_lock and release_local_*_lock.
THEOREM OneSidedWindows ==
  ASSUME FewClients, OneSidedPrograms
  PROVE  SlotSpec => []OneSidedOverlaps
<1> DEFINE SideInv == \E s \in Sides : OverlapInv(s)
<1>1. SlotInit => SlotTypeInv /\ QueueInv /\ SideInv
  BY InitSlotType, InitQueue, InitOverlap
<1>2. SlotTypeInv /\ QueueInv /\ [SlotNext]_slotVars => (SlotTypeInv /\ QueueInv)'
  BY StepSlotTypeInv, StepQueue
<1>3. SlotTypeInv /\ QueueInv /\ (SlotTypeInv /\ QueueInv)' /\ SideInv /\ [SlotNext]_slotVars => SideInv'
  <2>1. SUFFICES ASSUME SlotTypeInv, QueueInv, SlotTypeInv', QueueInv', [SlotNext]_slotVars,
                        NEW s \in Sides, OverlapInv(s)
                 PROVE  OverlapInv(s)'
    OBVIOUS
  <2>2. CASE UNCHANGED slotVars
    BY <2>1, <2>2, StutterOverlap
  <2>3. CASE SlotNext
    BY <2>1, <2>3, StepOverlap DEF SlotNext
  <2> QED BY <2>1, <2>2, <2>3
<1>4. QueueInv /\ SideInv => OneSidedOverlaps
  BY OverlapMarks DEF OneSidedOverlaps
<1> QED BY <1>1, <1>2, <1>3, <1>4, PTL DEF SlotSpec
=============================================================================

---------------------------- MODULE ChiRnfEngine ----------------------------
(***************************************************************************)
(* ChiRnfProtocolEngine (src/include/tlm/cep/chi_rnf_protocol_engine.hh):  *)
(* the requesting node of a CHI system.  Every message leaves through one  *)
(* of three channels, against a credit, into one of two output slots, and  *)
(* waits in pending_ when it cannot.  The home node that answers, snoops   *)
(* and returns the credits is outside the source.  Data is only present or *)
(* absent; the counters, and the opcodes that are refused, are left out.   *)
(***************************************************************************)
EXTENDS Integers, Sequences, FiniteSets

CONSTANTS
  ChiAddrs, ChiTxns,
  InitialCredit,   \* kDefaultInitialCredit, 4 in the code
  MaxPending       \* bound on pending_

VARIABLES
  credits,     \* credits_: channel -> credits
  in_flight,   \* in_flight_
  ack_pending, \* comp_ack_pending_
  lines,       \* lines_: address -> state, "I" when absent
  txn_line,    \* txn_addr_: transaction -> address, never erased
  pending,     \* pending_: the messages that wait, in order
  slots,       \* resp_out(): the two output slots
  toReturn,    \* history: channel -> messages sent whose credit is not back
  snooped,     \* history: addresses the home waits for an answer from
  acks         \* history: transaction -> CompAcks since it was submitted

chiVars == <<credits, in_flight, ack_pending, lines, txn_line, pending, slots,
             toReturn, snooped, acks>>

Channels    == {"TXREQ", "TXRSP", "TXDAT"}
NoMsg       == [ch |-> "none", addr |-> "none"]
DirtyStates == {"UD", "SD"}

ChiInit ==
  /\ credits = [c \in Channels |-> InitialCredit]
  /\ in_flight = {} /\ ack_pending = {} /\ txn_line = << >>
  /\ lines \in [ChiAddrs -> {"I", "SD"}]      \* set_line
  /\ pending = << >> /\ slots = [p \in {0, 1} |-> NoMsg]
  /\ toReturn = [c \in Channels |-> 0]
  /\ snooped = {} /\ acks = [t \in ChiTxns |-> 0]

-----------------------------------------------------------------------------
(* An output is the state of the way out: credits, pending and slots.      *)
Out == [credits |-> credits, pending |-> pending, slots |-> slots]

FreeSlot(o) == {p \in {0, 1} : o.slots[p] = NoMsg}
Lowest(P)   == IF 0 \in P THEN 0 ELSE 1

(* Mutant: the credit of a message that leaves is not taken.               *)
SendFree(o, msg) == [o EXCEPT !.slots[Lowest(FreeSlot(o))] = msg]

(* write_to_egress and the credit it costs.                                *)
SendNow(o, msg) ==
  [o EXCEPT !.slots[Lowest(FreeSlot(o))] = msg, !.credits[msg.ch] = @ - 1]

CanSend(o, ch) == o.credits[ch] > 0 /\ FreeSlot(o) # {}

(* emit: a message that may go goes at once, also past the ones that wait. *)
Emit(o, msg) ==
  IF CanSend(o, msg.ch) THEN SendNow(o, msg)
                        ELSE [o EXCEPT !.pending = Append(@, msg)]

(* drain_pending: from the head on, until the head may not go.  The slots  *)
(* limit it to two messages.                                               *)
DrainOne(o) ==
  IF o.pending # << >> /\ CanSend(o, Head(o.pending).ch)
  THEN [SendNow(o, Head(o.pending)) EXCEPT !.pending = Tail(o.pending)]
  ELSE o
Drain(o) == DrainOne(DrainOne(o))

SetOut(o) == credits' = o.credits /\ pending' = o.pending /\ slots' = o.slots

(* The handlers run in tick, after drain_pending has done what it can.     *)
Drained == Drain(Out) = Out

-----------------------------------------------------------------------------
(* submit_request of an accepted opcode.  A transaction in flight is       *)
(* refused; a write-back gives the line up when it is submitted.           *)
SubmitRequest(op, a, t) ==
  /\ t \notin in_flight /\ Len(pending) < MaxPending
  /\ (op = "WriteBackFull") <=> (lines[a] \in DirtyStates)
  /\ in_flight' = in_flight \cup {t}
  /\ txn_line' = [u \in DOMAIN txn_line \cup {t} |-> IF u = t THEN a ELSE txn_line[u]]
  /\ lines' = IF op = "WriteBackFull" THEN [lines EXCEPT ![a] = "I"] ELSE lines
  /\ ack_pending' = IF op \in {"ReadUnique", "MakeUnique"}
                    THEN ack_pending \cup {t} ELSE ack_pending
  /\ SetOut(Emit(Out, [ch |-> "TXREQ", addr |-> a]))
  /\ acks' = [acks EXCEPT ![t] = 0]
  /\ UNCHANGED <<toReturn, snooped>>

Granted(perm) ==
  CASE perm = "UNIQUE" -> "UC" [] perm = "WRITEBACK" -> "UD" [] OTHER -> "SC"

(* on_completion.  With data it fills the line, acknowledges if that is    *)
(* due and ends the transaction; without data it ends only a transaction   *)
(* that awaits no acknowledgement; an error ends either.                   *)
ChiOnCompletion(t, data, perm, error) ==
  /\ Drained /\ t \in in_flight
  /\ IF error THEN /\ in_flight' = in_flight \ {t}
                   /\ ack_pending' = ack_pending \ {t}
                   /\ UNCHANGED <<lines, acks>>
     ELSE IF data
     THEN /\ lines' = [lines EXCEPT ![txn_line[t]] = Granted(perm)]
          /\ acks' = IF t \in ack_pending THEN [acks EXCEPT ![t] = @ + 1] ELSE acks
          /\ ack_pending' = ack_pending \ {t}
          /\ in_flight' = in_flight \ {t}
     ELSE /\ in_flight' = IF t \in ack_pending THEN in_flight ELSE in_flight \ {t}
          /\ UNCHANGED <<lines, acks, ack_pending>>
  /\ UNCHANGED <<credits, txn_line, pending, slots, toReturn, snooped>>

(* on_snoop: a dirty line answers with its data and is gone, whatever the  *)
(* type of the snoop; a clean one answers and is kept as SC unless the     *)
(* snoop invalidates; a miss answers too.                                  *)
ChiOnSnoop(a, invalidate) ==
  /\ Drained /\ a \notin snooped /\ Len(pending) < MaxPending
  /\ snooped' = snooped \cup {a}
  /\ lines' = [lines EXCEPT ![a] =
                 IF @ = "I" \/ @ \in DirtyStates \/ invalidate THEN "I" ELSE "SC"]
  /\ SetOut(Emit(Out, [ch |-> IF lines[a] \in DirtyStates THEN "TXDAT" ELSE "TXRSP",
                       addr |-> a]))
  /\ UNCHANGED <<in_flight, ack_pending, txn_line, toReturn, acks>>

(* receive_credit, for a message the home has taken.                       *)
ReceiveCredit(c) ==
  /\ toReturn[c] > 0
  /\ toReturn' = [toReturn EXCEPT ![c] = @ - 1]
  /\ credits' = [credits EXCEPT ![c] = @ + 1]
  /\ UNCHANGED <<in_flight, ack_pending, lines, txn_line, pending, slots, snooped, acks>>

(* tick: drain, send what the slots hold, drain again.                     *)
Tick ==
  /\ LET o    == Drain(Out)
         sent == {p \in {0, 1} : o.slots[p] # NoMsg}
         up(c) == Cardinality({p \in sent : o.slots[p].ch = c})
     IN  /\ SetOut(Drain([o EXCEPT !.slots = [p \in {0, 1} |-> NoMsg]]))
         /\ toReturn' = [c \in Channels |-> toReturn[c] + up(c)]
         /\ snooped' = snooped \ {o.slots[p].addr :
                                    p \in {q \in sent : o.slots[q].ch # "TXREQ"}}
  /\ UNCHANGED <<in_flight, ack_pending, lines, txn_line, acks>>

ChiNext ==
  \/ \E a \in ChiAddrs, t \in ChiTxns,
        op \in {"ReadShared", "ReadUnique", "MakeUnique", "WriteBackFull"} :
       SubmitRequest(op, a, t)
  \/ \E t \in ChiTxns, data, error \in BOOLEAN,
        perm \in {"READ", "UNIQUE", "WRITEBACK"} : ChiOnCompletion(t, data, perm, error)
  \/ \E a \in ChiAddrs, i \in BOOLEAN : ChiOnSnoop(a, i)
  \/ \E c \in Channels : ReceiveCredit(c)
  \/ Tick

ChiSpec == ChiInit /\ [][ChiNext]_chiVars

-----------------------------------------------------------------------------
InSlots(c) == Cardinality({p \in {0, 1} : slots[p].ch = c})

ChiTypeOK ==
  /\ credits \in [Channels -> 0..InitialCredit]
  /\ ack_pending \subseteq in_flight /\ in_flight \subseteq DOMAIN txn_line
  /\ Len(pending) <= MaxPending

(* No message is sent without a credit and no credit is lost: on every     *)
(* channel the credits held, the messages in the slots and the messages    *)
(* whose credit the home has not returned add up to the initial credit,    *)
(* through stalls, direct sends past the waiting messages and drains.      *)
CreditsConserved ==
  \A c \in Channels : credits[c] + InSlots(c) + toReturn[c] = InitialCredit

Answers(m, a) == m.ch \in {"TXRSP", "TXDAT"} /\ m.addr = a

(* A snoop the home waits for has exactly one answer on its way, waiting   *)
(* or in a slot: stalling neither drops nor doubles it.                    *)
SnoopAnsweredOnce ==
  LET answers(a) == Cardinality({i \in DOMAIN pending : Answers(pending[i], a)})
                    + Cardinality({p \in {0, 1} : Answers(slots[p], a)})
  IN  \A a \in ChiAddrs : answers(a) = IF a \in snooped THEN 1 ELSE 0

(* A transaction that needs a CompAck sends one before its id is free for  *)
(* reuse and never two, in whatever order data, dataless completions and   *)
(* errors arrive.                                                          *)
CompAckOnce ==
  \A t \in ChiTxns : acks[t] <= 1 /\ (t \in ack_pending => acks[t] = 0)
=============================================================================

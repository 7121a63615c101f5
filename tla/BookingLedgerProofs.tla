-------------------------- MODULE BookingLedgerProofs --------------------------
(***************************************************************************)
(* Proofs about BookingLedger: what every implementation of it inherits.   *)
(***************************************************************************)
EXTENDS BookingLedger, TLAPS

LedgerInv == LedgerTypeOK /\ NoOverlap /\ OutcomeOnRecord

\* Overlapping is symmetric, so that checking the other rows once is enough.
LEMMA OverlapSymmetric ==
  ASSUME NEW a, NEW b
  PROVE  Overlaps(a, b) <=> Overlaps(b, a)
  BY DEF Overlaps

LEMMA LedgerInitial == LedgerInit => LedgerInv
  BY DEF LedgerInit, LedgerInv, LedgerTypeOK, NoOverlap, OutcomeOnRecord, Live, LiveStatuses

LEMMA LedgerTypeStep ==
  ASSUME LedgerTypeOK, [LedgerNext]_ledger
  PROVE  LedgerTypeOK'
<1>1. ASSUME NEW b \in BookingIds, NEW s \in Slots, Create(b, s) \/ Rebook(b, s)
      PROVE  LedgerTypeOK'
  BY <1>1 DEF LedgerTypeOK, Create, Rebook, Statuses
<1>2. ASSUME NEW b \in BookingIds, NEW to \in Statuses, Move(b, to)
      PROVE  LedgerTypeOK'
  BY <1>2 DEF LedgerTypeOK, Move
<1>3. ASSUME NEW b \in BookingIds, NEW outcome \in {"attended", "no_show"}, Close(b, outcome)
      PROVE  LedgerTypeOK'
  BY <1>3 DEF LedgerTypeOK, Close, Statuses
<1> QED
  BY <1>1, <1>2, <1>3 DEF LedgerNext, ledger, LedgerTypeOK

\* Only Create and Rebook give a live booking a slot, and each finds it free.
LEMMA NoOverlapStep ==
  ASSUME LedgerTypeOK, NoOverlap, [LedgerNext]_ledger
  PROVE  NoOverlap'
<1>1. ASSUME NEW b \in BookingIds, NEW s \in Slots, Create(b, s) \/ Rebook(b, s)
      PROVE  NoOverlap'
  <2>1. /\ slot' = [slot EXCEPT ![b] = s]
        /\ FreeFor(b, s)
        /\ \A other \in BookingIds \ {b} : status'[other] = status[other]
    BY <1>1 DEF Create, Rebook, LedgerTypeOK
  <2> SUFFICES ASSUME NEW x \in BookingIds, NEW y \in BookingIds, x # y, Live(x)', Live(y)'
               PROVE  ~Overlaps(slot'[x], slot'[y])
    BY DEF NoOverlap
  <2>2. CASE x = b
    BY <2>1, <2>2, OverlapSymmetric DEF FreeFor, Live, LedgerTypeOK
  <2>3. CASE y = b
    BY <2>1, <2>3, OverlapSymmetric DEF FreeFor, Live, LedgerTypeOK
  <2>4. CASE x # b /\ y # b
    BY <2>1, <2>4 DEF NoOverlap, Live, LedgerTypeOK
  <2> QED
    BY <2>2, <2>3, <2>4
<1>2. ASSUME NEW b \in BookingIds, NEW to \in Statuses, Move(b, to)
      PROVE  NoOverlap'
  <2>1. \A x \in BookingIds : Live(x)' => Live(x)
    BY <1>2 DEF Move, Live, LiveStatuses, LedgerTypeOK, CanTransition, BookingTransitions, Statuses
  <2> QED
    BY <1>2, <2>1 DEF Move, NoOverlap
<1>3. ASSUME NEW b \in BookingIds, NEW outcome \in {"attended", "no_show"}, Close(b, outcome)
      PROVE  NoOverlap'
  <2>1. \A x \in BookingIds : Live(x)' => Live(x)
    BY <1>3 DEF Close, Live, LiveStatuses, LedgerTypeOK
  <2> QED
    BY <1>3, <2>1 DEF Close, NoOverlap
<1> QED
  BY <1>1, <1>2, <1>3 DEF LedgerNext, ledger, NoOverlap, Live

\* A closed booking is final, and Close is the only step that writes an outcome.
LEMMA OutcomeStep ==
  ASSUME LedgerTypeOK, OutcomeOnRecord, [LedgerNext]_ledger
  PROVE  OutcomeOnRecord'
<1>1. ASSUME NEW b \in BookingIds, NEW s \in Slots, Create(b, s) \/ Rebook(b, s)
      PROVE  OutcomeOnRecord'
  BY <1>1 DEF OutcomeOnRecord, Create, Rebook, LedgerTypeOK
<1>2. ASSUME NEW b \in BookingIds, NEW to \in Statuses, Move(b, to)
      PROVE  OutcomeOnRecord'
  BY <1>2 DEF OutcomeOnRecord, Move, LedgerTypeOK, CanTransition, BookingTransitions, Statuses
<1>3. ASSUME NEW b \in BookingIds, NEW outcome \in {"attended", "no_show"}, Close(b, outcome)
      PROVE  OutcomeOnRecord'
  BY <1>3 DEF OutcomeOnRecord, Close, LedgerTypeOK
<1> QED
  BY <1>1, <1>2, <1>3 DEF LedgerNext, ledger, OutcomeOnRecord

\* Whatever implements the ledger never double-books, and closes a booking exactly when it
\* records the outcome.
THEOREM LedgerSafe == LedgerSpec => [](NoOverlap /\ OutcomeOnRecord)
<1>1. LedgerInv /\ [LedgerNext]_ledger => LedgerInv'
  BY LedgerTypeStep, NoOverlapStep, OutcomeStep DEF LedgerInv
<1>2. LedgerSpec => []LedgerInv
  BY LedgerInitial, <1>1, PTL DEF LedgerSpec
<1>3. LedgerInv => NoOverlap /\ OutcomeOnRecord
  BY DEF LedgerInv
<1> QED
  BY <1>2, <1>3, PTL

=============================================================================

---------------------------- MODULE HandleMirror ----------------------------
(***************************************************************************)
(* What the LLC promises about the read-only State/Config of an MKx handle *)
(* (tMKx, llc-api.h): the handle mirrors the device through a single       *)
(* ordered indication path.  The device changes an item (a setting it     *)
(* applied or a value it measured) and indicates the new value, or        *)
(* reports an item's current value on request, or raises another event;  *)
(* the LLC delivers the indications in the order they were raised,        *)
(* writing the items into the handle (fMKx_NotifInd and the State/Config *)
(* updates).  Requests, threads and buffers are not part of this view.    *)
(***************************************************************************)
EXTENDS Integers, Sequences, TLAPS

CONSTANTS
    Items,   \* the items of State/Config the LLC keeps in the handle
    Kinds,   \* the kinds of indication: Items and the other events
    Vals     \* the values an item can take

VARIABLES
    dev,     \* the device's value of each item
    hnd,     \* the handle's value of each item
    chan     \* the indications raised and not yet delivered, oldest first

avars == <<dev, hnd, chan>>

Ind == [kind : Items \cup Kinds, val : Vals]

TypeOK ==
    /\ dev \in [Items -> Vals]
    /\ hnd \in [Items -> Vals]
    /\ chan \in Seq(Ind)

\* The handle starts as a copy of the device (MKx_Init reads the configuration)
Init ==
    /\ dev \in [Items -> Vals]
    /\ hnd = dev
    /\ chan = << >>

\* The device takes a new value of item i and indicates it
Update(i, v) ==
    /\ dev' = [dev EXCEPT ![i] = v]
    /\ chan' = Append(chan, [kind |-> i, val |-> v])
    /\ UNCHANGED hnd

\* The device reports the current value of item i (the reply to a query)
Report(i) ==
    /\ chan' = Append(chan, [kind |-> i, val |-> dev[i]])
    /\ UNCHANGED <<dev, hnd>>

\* The device raises an event that carries no item (GetTSFInd, GPIO, Rx ...)
Event(k, v) ==
    /\ k \notin Items
    /\ chan' = Append(chan, [kind |-> k, val |-> v])
    /\ UNCHANGED <<dev, hnd>>

\* The LLC delivers the oldest indication; an item's value enters the handle
Deliver ==
    /\ chan # << >>
    /\ chan' = Tail(chan)
    /\ \/ /\ Head(chan).kind \in Items
          /\ hnd' = [hnd EXCEPT ![Head(chan).kind] = Head(chan).val]
       \/ /\ Head(chan).kind \notin Items
          /\ UNCHANGED hnd
    /\ UNCHANGED dev

Next ==
    \/ Deliver
    \/ \E i \in Items : Report(i)
    \/ \E i \in Items, v \in Vals : Update(i, v)
    \/ \E k \in Kinds, v \in Vals : Event(k, v)

\* The LLC's receive path keeps delivering what the device indicated
Spec == Init /\ [][Next]_avars
FairSpec == Spec /\ WF_avars(Deliver)

-----------------------------------------------------------------------------

\* Position k of s holds the last indication of item i in s
LastOf(s, i, k) ==
    /\ s[k].kind = i
    /\ \A j \in k + 1 .. Len(s) : s[j].kind # i

\* Item i is mirrored by a handle value h and a device value d through s
ItemMirrored(s, h, d, i) ==
    \/ /\ \A k \in 1 .. Len(s) : s[k].kind # i
       /\ h = d
    \/ \E k \in 1 .. Len(s) : LastOf(s, i, k) /\ s[k].val = d

(***************************************************************************)
(* The handle lags the device only by what is still undelivered: an item  *)
(* with no indication in the channel has the device's value in the       *)
(* handle, and otherwise the last indication of the item carries the      *)
(* device's value, so delivering the channel brings the handle level.    *)
(* This is what makes State/Config trustworthy once the LLC is idle.     *)
(***************************************************************************)
Mirror == \A i \in Items : ItemMirrored(chan, hnd[i], dev[i], i)

\* The inductive invariant of the proof below
MirrorInv == TypeOK /\ Mirror

-----------------------------------------------------------------------------
(* Lemmas on ItemMirrored: how appending and removing indications act *)

\* An indication of another item leaves item i mirrored
LEMMA AppendOther ==
    ASSUME NEW s \in Seq(Ind), NEW e \in Ind, NEW i, NEW h, NEW d,
           e.kind # i, ItemMirrored(s, h, d, i)
    PROVE  ItemMirrored(Append(s, e), h, d, i)
BY DEF ItemMirrored, LastOf

\* An indication of item i with the device's value mirrors item i
LEMMA AppendSame ==
    ASSUME NEW s \in Seq(Ind), NEW i \in Items \cup Kinds, NEW d \in Vals, NEW h
    PROVE  ItemMirrored(Append(s, [kind |-> i, val |-> d]), h, d, i)
<1> DEFINE t == Append(s, [kind |-> i, val |-> d])
<1>1. Len(t) \in 1 .. Len(t) /\ LastOf(t, i, Len(t)) /\ t[Len(t)].val = d
  BY DEF LastOf
<1> QED
  BY <1>1 DEF ItemMirrored

\* Delivering an indication of another item leaves item i mirrored
LEMMA TailOther ==
    ASSUME NEW s \in Seq(Ind), NEW i, NEW h, NEW d,
           s # << >>, Head(s).kind # i, ItemMirrored(s, h, d, i)
    PROVE  ItemMirrored(Tail(s), h, d, i)
<1>1. CASE \A k \in 1 .. Len(s) : s[k].kind # i /\ h = d
  BY <1>1 DEF ItemMirrored
<1>2. ASSUME NEW k \in 1 .. Len(s), LastOf(s, i, k), s[k].val = d
      PROVE  ItemMirrored(Tail(s), h, d, i)
  <2>1. k > 1
    BY <1>2 DEF LastOf
  <2>2. (k - 1) \in 1 .. Len(Tail(s)) /\ LastOf(Tail(s), i, k - 1)
        /\ Tail(s)[k - 1].val = d
    BY <1>2, <2>1 DEF LastOf
  <2> QED
    BY <2>2 DEF ItemMirrored
<1> QED
  BY <1>1, <1>2 DEF ItemMirrored

\* Delivering an indication of item i writes its value into the handle
LEMMA TailSame ==
    ASSUME NEW s \in Seq(Ind), NEW i, NEW h, NEW d,
           s # << >>, Head(s).kind = i, ItemMirrored(s, h, d, i)
    PROVE  ItemMirrored(Tail(s), Head(s).val, d, i)
<1>1. PICK k \in 1 .. Len(s) : LastOf(s, i, k) /\ s[k].val = d
  BY DEF ItemMirrored
<1>2. CASE k = 1
  <2>1. \A j \in 1 .. Len(Tail(s)) : Tail(s)[j].kind # i
    BY <1>1, <1>2 DEF LastOf
  <2> QED
    BY <1>1, <1>2, <2>1 DEF ItemMirrored
<1>3. CASE k > 1
  <2>1. (k - 1) \in 1 .. Len(Tail(s)) /\ LastOf(Tail(s), i, k - 1)
        /\ Tail(s)[k - 1].val = d
    BY <1>1, <1>3 DEF LastOf
  <2> QED
    BY <2>1 DEF ItemMirrored
<1> QED
  BY <1>2, <1>3

-----------------------------------------------------------------------------

(***************************************************************************)
(* The handle mirrors the device in every reachable state: whatever the   *)
(* interleaving of device changes, reports, events and deliveries, the    *)
(* items the LLC writes into State/Config lag only by what is in flight. *)
(***************************************************************************)
THEOREM MirrorInvariant == Spec => []Mirror
<1>1. Init => MirrorInv
  BY DEF Init, MirrorInv, TypeOK, Mirror, ItemMirrored
<1>2. MirrorInv /\ [Next]_avars => MirrorInv'
  <2> SUFFICES ASSUME MirrorInv, [Next]_avars PROVE MirrorInv'
    OBVIOUS
  <2> USE DEF MirrorInv, TypeOK
  <2>1. ASSUME NEW i \in Items, NEW v \in Vals, Update(i, v) PROVE MirrorInv'
    <3>1. TypeOK'
      BY <2>1 DEF Update, Ind
    <3>2. ASSUME NEW j \in Items PROVE ItemMirrored(chan', hnd'[j], dev'[j], j)
      <4>1. CASE j = i
        BY <2>1, <4>1, AppendSame DEF Update, Ind
      <4>2. CASE j # i
        BY <2>1, <4>2, AppendOther DEF Update, Ind, Mirror
      <4> QED
        BY <4>1, <4>2
    <3> QED
      BY <3>1, <3>2 DEF Mirror
  <2>2. ASSUME NEW i \in Items, Report(i) PROVE MirrorInv'
    <3>1. TypeOK'
      BY <2>2 DEF Report, Ind
    <3>2. ASSUME NEW j \in Items PROVE ItemMirrored(chan', hnd'[j], dev'[j], j)
      <4>1. CASE j = i
        BY <2>2, <4>1, AppendSame DEF Report, Ind
      <4>2. CASE j # i
        BY <2>2, <4>2, AppendOther DEF Report, Ind, Mirror
      <4> QED
        BY <4>1, <4>2
    <3> QED
      BY <3>1, <3>2 DEF Mirror
  <2>3. ASSUME NEW k \in Kinds, NEW v \in Vals, Event(k, v) PROVE MirrorInv'
    <3>1. TypeOK'
      BY <2>3 DEF Event, Ind
    <3>2. ASSUME NEW j \in Items PROVE ItemMirrored(chan', hnd'[j], dev'[j], j)
      BY <2>3, AppendOther DEF Event, Ind, Mirror
    <3> QED
      BY <3>1, <3>2 DEF Mirror
  <2>4. CASE Deliver
    <3>1. TypeOK'
      <4>1. Head(chan) \in Ind /\ Tail(chan) \in Seq(Ind)
        BY <2>4 DEF Deliver
      <4>2. hnd' \in [Items -> Vals]
        BY <2>4, <4>1 DEF Deliver, Ind
      <4> QED
        BY <2>4, <4>1, <4>2 DEF Deliver
    <3>2. ASSUME NEW j \in Items PROVE ItemMirrored(chan', hnd'[j], dev'[j], j)
      <4>1. CASE Head(chan).kind = j
        <5>1. hnd'[j] = Head(chan).val
          BY <2>4, <4>1 DEF Deliver
        <5> QED
          BY <2>4, <4>1, <5>1, TailSame DEF Deliver, Mirror
      <4>2. CASE Head(chan).kind # j
        <5>1. hnd'[j] = hnd[j]
          BY <2>4, <4>2 DEF Deliver
        <5> QED
          BY <2>4, <4>2, <5>1, TailOther DEF Deliver, Mirror
      <4> QED
        BY <4>1, <4>2
    <3> QED
      BY <3>1, <3>2 DEF Mirror
  <2>5. CASE UNCHANGED avars
    BY <2>5 DEF avars, Mirror
  <2>6. QED
    BY <2>1, <2>2, <2>3, <2>4, <2>5 DEF Next
<1>3. MirrorInv => Mirror
  BY DEF MirrorInv
<1>4. QED
  BY <1>1, <1>2, <1>3, PTL DEF Spec

=============================================================================

------------------------ MODULE SignerSessionProofs ------------------------
(***************************************************************************)
(* That a listing fails only for a reason, and that its answer fits the    *)
(* channel, for any keys, names and number of changes while it runs and    *)
(* any interleaving of the frames on the connection.  The inductive        *)
(* invariant follows an answer along that connection: from the relay's     *)
(* stored events, through the frames on their way, to what was collected,  *)
(* and says that an EOSE never overtakes the events it ends.               *)
(***************************************************************************)
EXTENDS SignerSession, FiniteSetTheorems, SequenceTheorems, WellFoundedInduction, TLAPS

MemberEvent == SUBSET Key
ProfileEvent == Key \X Name
Event == MemberEvent \cup ProfileEvent

DownFrame == [id : Request, what : {"EVENT", "EOSE", "CLOSED"}, event : Event]
UpFrame ==
  {Req(i, authors) : i \in Request, authors \in SUBSET Key}
  \cup {Frame(i, "CLOSE", {}) : i \in Request}
Filters == [request : Request, authors : SUBSET Key]
Moment == (SUBSET Key) \X [Key -> Name \cup {None}]

\* No type invariant is among the properties of the runs: this is one.
TypeOK ==
  /\ members \in SUBSET Key /\ profile \in [Key -> Name \cup {None}]
  /\ subs \in [Request -> [stage : {"none", "stored", "live"}, filter : Filters,
                           stored : SUBSET Event]]
  /\ up \in Seq(UpFrame) /\ down \in Seq(DownFrame)
  /\ pc \in {"reading", "listed", "failed"} /\ n \in Request
  /\ got \in [Request -> Seq(Event)]
  /\ changes \in Nat /\ moments \subseteq Moment /\ cause \subseteq {"broken", "refused"}

\* An event tells what was so at some moment of the call.
Real(i, event) ==
  IF i = 1 THEN \E m \in moments : m[1] = event
  ELSE event \in ProfileEvent /\ \E m \in moments : m[2][event[1]] = event[2]

EventsAreReal ==
  /\ <<members, profile>> \in moments
  /\ \A i \in Request : \A event \in subs[i].stored : Real(i, event)
  /\ \A j \in 1..Len(down) : down[j].what = "EVENT" => Real(down[j].id, down[j].event)
  /\ \A i \in Request : \A j \in 1..Len(got[i]) : Real(i, got[i][j])

\* The members have been collected, or one list of them is on its way, before
\* whatever ends the answer.
Sent(i, j) == down[j].id = i /\ down[j].what = "EVENT"
Ends(i, j) == down[j].id = i /\ down[j].what = "EOSE"

MembersComeFirst ==
  /\ n = 2 \/ pc = "listed" => got[1] # <<>>
  /\ \A j \in 1..Len(down) : Ends(1, j) => got[1] # <<>> \/ \E i \in 1..(j - 1) : Sent(1, i)
  /\ subs[1].stage = "stored" =>
       subs[1].stored # {} \/ got[1] # <<>> \/ \E j \in 1..Len(down) : Sent(1, j)

\* Of each member listed the profile has been collected, or it had none at some
\* moment, or its profile is on its way, before whatever ends the answer.
Known(k) ==
  \/ \E m \in moments : m[2][k] = None
  \/ \E j \in 1..Len(got[2]) : got[2][j][1] = k

ProfilesComeFirst ==
  \A k \in Listed :
    /\ pc = "listed" => Known(k)
    /\ \A j \in 1..Len(down) : Ends(2, j) =>
         Known(k) \/ \E i \in 1..(j - 1) : Sent(2, i) /\ down[i].event[1] = k
    /\ subs[2].stage = "stored" =>
         \/ Known(k) \/ (\E event \in subs[2].stored : event[1] = k)
         \/ \E j \in 1..Len(down) : Sent(2, j) /\ down[j].event[1] = k

\* The second request is made once the first is answered, for those it listed;
\* and a subscription is to what its request asked for.
RequestsInTurn ==
  /\ n = 1 => /\ \A j \in 1..Len(up) : up[j].id = 1
              /\ \A j \in 1..Len(down) : down[j].id = 1
              /\ subs[2].stage = "none"
  /\ \A j \in 1..Len(up) : up[j].what = "REQ" =>
       /\ up[j].event.request = up[j].id
       /\ up[j].id = 2 => up[j].event.authors = Listed
  /\ \A i \in Request : subs[i].stage # "none" => subs[i].filter.request = i

\* While it reads, the signer has closed only earlier requests, so a CLOSED of
\* the present one is a refusal.
ClosedForCause ==
  /\ pc = "failed" => cause # {}
  /\ pc = "reading" =>
       /\ \A j \in 1..Len(up) : up[j].what = "CLOSE" => up[j].id < n
       /\ \A j \in 1..Len(down) : down[j].what = "CLOSED" => down[j].id < n \/ cause # {}

IInv ==
  TypeOK /\ EventsAreReal /\ MembersComeFirst /\ ProfilesComeFirst /\ RequestsInTurn /\ ClosedForCause

-----------------------------------------------------------------------------
(* What the operators on frames and events do. *)

\* The keys collected are those of each event, and each is a key.
LEMMA ListedKeys ==
  ASSUME TypeOK, EventsAreReal
  PROVE  /\ Listed = UNION {got[1][j] : j \in 1..Len(got[1])}
         /\ Listed \subseteq Key
         /\ \A j \in 1..Len(got[1]) : got[1][j] \subseteq Listed
<1>1. got[1] \in Seq(Event) BY DEF TypeOK, Request
<1>2. DOMAIN got[1] = 1..Len(got[1]) BY <1>1
<1>3. Listed = UNION {got[1][j] : j \in 1..Len(got[1])}
  BY <1>2 DEF Listed, Keys, Range
<1>4. \A j \in 1..Len(got[1]) : got[1][j] \subseteq Key
  BY DEF EventsAreReal, Real, Request, TypeOK, Moment
<1> QED BY <1>3, <1>4

\* A request on its way to the relay has an identifier and a filter; so has a
\* CLOSE an identifier.
LEMMA UpFrames ==
  ASSUME NEW f \in UpFrame
  PROVE  /\ f.id \in Request /\ f.what \in {"REQ", "CLOSE"}
         /\ f.what = "REQ" => f.event \in Filters
BY DEF UpFrame, Req, Frame, Filter, Filters, SubId, Request

\* down has become longer, by frames of the set new.
Grows(new) ==
  /\ down' \in Seq(DownFrame) /\ Len(down') \in Nat /\ Len(down) <= Len(down')
  /\ \A j \in 1..Len(down) : down'[j] = down[j]
  /\ \A j \in (Len(down) + 1)..Len(down') : down'[j] \in new

\* Sending appends one frame.
LEMMA SendGrows ==
  ASSUME TypeOK, NEW id \in Request, NEW what \in {"EVENT", "EOSE", "CLOSED"},
         NEW event \in Event, Send(id, what, event)
  PROVE  /\ Grows({Frame(id, what, event)})
         /\ Len(down') = Len(down) + 1 /\ down'[Len(down) + 1] = Frame(id, what, event)
<1>1. down \in Seq(DownFrame) /\ Frame(id, what, event) \in DownFrame
  BY DEF TypeOK, Frame, DownFrame
<1>2. down' = Append(down, Frame(id, what, event)) BY DEF Send
<1>3. /\ down' \in Seq(DownFrame) /\ Len(down') = Len(down) + 1
      /\ \A j \in 1..Len(down) : down'[j] = down[j]
      /\ down'[Len(down) + 1] = Frame(id, what, event)
  BY <1>1, <1>2, AppendProperties
<1>4. Len(down) \in Nat BY <1>1
<1> QED BY <1>3, <1>4 DEF Grows

\* A finite set is written as a sequence of its members.
LEMMA SetAsSeq ==
  ASSUME NEW S, IsFiniteSet(S)
  PROVE  SetToSeq(S) \in Seq(S)
<1>1. Cardinality(S) \in Nat /\ ExistsBijection(1..Cardinality(S), S)
  BY FS_CardinalityType
<1>2. PICK f \in Bijection(1..Cardinality(S), S) : TRUE
  BY <1>1 DEF ExistsBijection
<1>3. f \in [1..Cardinality(S) -> S] /\ IsInjective(f)
  BY <1>2 DEF Bijection, Injection, IsInjective
<1>4. SetToSeq(S) \in [1..Cardinality(S) -> S] BY <1>3 DEF SetToSeq
<1> QED BY <1>1, <1>4

\* What is pushed goes out on some of the open subscriptions it matches.
LEMMA PushGrows ==
  ASSUME TypeOK, NEW request, NEW author, NEW event \in Event,
         Push(request, author, event)
  PROVE  Grows({Frame(id, "EVENT", event) : id \in
           {i \in Request : subs[i].stage # "none" /\ Matches(subs[i].filter, request, author)}})
<1> DEFINE open == {i \in Request : /\ subs[i].stage # "none"
                                    /\ Matches(subs[i].filter, request, author)}
<1>1. PICK ids \in SUBSET open :
        down' = down \o SetToSeq({Frame(id, "EVENT", event) : id \in ids})
  BY DEF Push
<1> DEFINE new == {Frame(id, "EVENT", event) : id \in ids}
<1>2. IsFiniteSet(ids)
  <2>1. 1 \in Int /\ 2 \in Int OBVIOUS
  <2>2. IsFiniteSet(1..2) BY <2>1, FS_Interval
  <2> QED BY <2>2, FS_Subset DEF Request
<1>3. IsFiniteSet(new)
  <2> DEFINE sent == [id \in ids |-> Frame(id, "EVENT", event)]
  <2>1. sent \in Surjection(ids, new) BY DEF Surjection
  <2> QED BY <1>2, <2>1, FS_Surjection
<1>4. SetToSeq(new) \in Seq(new) BY <1>3, SetAsSeq
<1>5. new \subseteq DownFrame BY DEF Frame, DownFrame
<1> DEFINE t == SetToSeq(new)
<1>6. t \in Seq(DownFrame) BY <1>4, <1>5, SeqMonotonic
<1>7. down \in Seq(DownFrame) BY DEF TypeOK
<1>8. /\ down' \in Seq(DownFrame) /\ Len(down') = Len(down) + Len(t)
      /\ \A i \in 1..(Len(down) + Len(t)) :
           down'[i] = IF i <= Len(down) THEN down[i] ELSE t[i - Len(down)]
  BY <1>1, <1>6, <1>7, ConcatProperties
<1>9. Len(down) \in Nat /\ Len(t) \in Nat BY <1>6, <1>7
<1>10. \A i \in 1..Len(t) : t[i] \in new BY <1>4, ElementOfSeq
<1>11. \A j \in (Len(down) + 1)..Len(down') : down'[j] \in new
  <2>1. TAKE j \in (Len(down) + 1)..Len(down')
  <2>2. j - Len(down) \in 1..Len(t) /\ down'[j] = t[j - Len(down)]
    <3> HIDE DEF t
    <3> QED BY <1>8, <1>9, <2>1
  <2> HIDE DEF t, new
  <2> QED BY <2>2, <1>10
<1>12. new \subseteq {Frame(id, "EVENT", event) : id \in open} OBVIOUS
<1> HIDE DEF t, new, open
<1> QED BY <1>8, <1>9, <1>11, <1>12 DEF Grows, open

-----------------------------------------------------------------------------
(* The signer's steps preserve the invariant. *)

\* A frame read is the first one on its way, and leaves the others.
LEMMA ReadShrinks ==
  ASSUME TypeOK, down # <<>>, down' = Tail(down)
  PROVE  /\ down' \in Seq(DownFrame) /\ Len(down) \in Nat /\ Len(down) = Len(down') + 1
         /\ Len(down') \in Nat
         /\ \A j \in 1..Len(down') : down'[j] = down[j + 1]
         /\ Head(down) = down[1] /\ down[1] \in DownFrame /\ 1 \in 1..Len(down)
<1>1. down \in Seq(DownFrame) BY DEF TypeOK
<1>2. Head(down) = down[1] OBVIOUS
<1>3. Len(down) \in Nat \ {0} BY <1>1, EmptySeq
<1>4. /\ Tail(down) \in Seq(DownFrame) /\ Len(Tail(down)) = Len(down) - 1
      /\ \A j \in 1..Len(Tail(down)) : Tail(down)[j] = down[j + 1]
  BY <1>1, HeadTailProperties
<1> QED BY <1>1, <1>2, <1>3, <1>4, ElementOfSeq

\* A frame that is no event of this request is dropped, and the reading goes on
\* or is given up for a reason: no event of this request is lost.
LEMMA DropStep ==
  ASSUME IInv, pc = "reading", down # <<>>, down' = Tail(down),
         Head(down).id = n => Head(down).what # "EVENT",
         pc' = pc \/ (pc' = "failed" /\ cause # {}),
         UNCHANGED <<channel, n, got, subs, up, cause>>
  PROVE  IInv'
<1> USE DEF channel, SubId
<1>1. /\ down' \in Seq(DownFrame) /\ Len(down) \in Nat /\ Len(down) = Len(down') + 1
      /\ Len(down') \in Nat
      /\ \A j \in 1..Len(down') : down'[j] = down[j + 1]
      /\ (down[1].id = n => down[1].what # "EVENT") /\ down[1] \in DownFrame
  BY ReadShrinks DEF IInv
<1>2. \A j \in 1..Len(down') : j + 1 \in 1..Len(down) /\ down'[j] = down[j + 1] BY <1>1
<1>3. \A j \in 1..Len(down) : j = 1 \/ (j - 1 \in 1..Len(down') /\ down'[j - 1] = down[j])
  BY <1>1
<1>4. down[1].id \in Request BY <1>1 DEF DownFrame
<1>5. TypeOK' BY <1>1 DEF IInv, TypeOK, Filters, Request
<1>6. EventsAreReal' BY <1>2 DEF IInv, EventsAreReal, Real
<1>7. MembersComeFirst'
  <2>1. n = 1 \/ got[1] # <<>> BY DEF IInv, MembersComeFirst, TypeOK, Request
  <2>2. CASE n = 1
    <3>1. \A j \in 1..Len(down') : Ends(1, j)' => got[1] # <<>> \/ \E i \in 1..(j - 1) : Sent(1, i)'
      <4>1. SUFFICES ASSUME NEW j \in 1..Len(down'), Ends(1, j)', got[1] = <<>>
                     PROVE  \E i \in 1..(j - 1) : Sent(1, i)'
        OBVIOUS
      <4>2. PICK i \in 1..j : Sent(1, i)
        BY <1>2, <4>1 DEF IInv, MembersComeFirst, Ends
      <4>3. i # 1 BY <1>1, <2>2, <4>2 DEF Sent
      <4>4. i - 1 \in 1..(j - 1) /\ i \in 1..Len(down) BY <1>1, <4>3
      <4> QED BY <1>3, <4>2, <4>3, <4>4 DEF Sent
    <3>2. subs[1].stage = "stored" =>
            subs[1].stored # {} \/ got[1] # <<>> \/ \E j \in 1..Len(down') : Sent(1, j)'
      <4>1. SUFFICES ASSUME subs[1].stage = "stored", subs[1].stored = {}, got[1] = <<>>
                     PROVE  \E j \in 1..Len(down') : Sent(1, j)'
        OBVIOUS
      <4>2. PICK i \in 1..Len(down) : Sent(1, i) BY <4>1 DEF IInv, MembersComeFirst
      <4>3. i # 1 BY <1>1, <2>2, <4>2 DEF Sent
      <4> QED BY <1>3, <4>2, <4>3 DEF Sent
    <3> QED BY <3>1, <3>2 DEF IInv, MembersComeFirst
  <2> QED BY <2>1, <2>2 DEF MembersComeFirst, Sent, Ends
<1>8. ProfilesComeFirst'
  <2>1. CASE n = 1
    <3>1. \A j \in 1..Len(down') : down'[j].id = 1 BY <1>2, <2>1 DEF IInv, RequestsInTurn
    <3> QED BY <2>1, <3>1 DEF IInv, RequestsInTurn, ProfilesComeFirst, Ends
  <2>2. CASE n = 2
    <3>1. SUFFICES ASSUME NEW k \in Listed
                   PROVE  /\ \A j \in 1..Len(down') : Ends(2, j)' =>
                               Known(k) \/ \E i \in 1..(j - 1) :
                                 Sent(2, i)' /\ down'[i].event[1] = k
                          /\ subs[2].stage = "stored" =>
                               \/ Known(k) \/ (\E event \in subs[2].stored : event[1] = k)
                               \/ \E j \in 1..Len(down') : Sent(2, j)' /\ down'[j].event[1] = k
      BY <3>1 DEF ProfilesComeFirst, Listed, Known
    <3>2. ASSUME NEW j \in 1..Len(down'), Ends(2, j)', ~Known(k)
          PROVE  \E i \in 1..(j - 1) : Sent(2, i)' /\ down'[i].event[1] = k
      <4>1. PICK i \in 1..j : Sent(2, i) /\ down[i].event[1] = k
        BY <1>2, <3>2 DEF IInv, ProfilesComeFirst, Ends
      <4>2. i # 1 BY <1>1, <2>2, <4>1 DEF Sent
      <4>3. i - 1 \in 1..(j - 1) /\ i \in 1..Len(down) BY <1>1, <4>2
      <4> QED BY <1>3, <4>1, <4>2, <4>3 DEF Sent
    <3>3. ASSUME subs[2].stage = "stored", ~Known(k),
                 ~\E event \in subs[2].stored : event[1] = k
          PROVE  \E j \in 1..Len(down') : Sent(2, j)' /\ down'[j].event[1] = k
      <4>1. PICK i \in 1..Len(down) : Sent(2, i) /\ down[i].event[1] = k
        BY <3>3 DEF IInv, ProfilesComeFirst
      <4>2. i # 1 BY <1>1, <2>2, <4>1 DEF Sent
      <4> QED BY <1>3, <4>1, <4>2 DEF Sent
    <3> QED BY <3>2, <3>3
  <2> QED BY <2>1, <2>2 DEF IInv, TypeOK, Request
<1>9. RequestsInTurn' BY <1>2 DEF IInv, RequestsInTurn, Listed
<1>10. ClosedForCause' BY <1>2 DEF IInv, ClosedForCause
<1> QED BY <1>5, <1>6, <1>7, <1>8, <1>9, <1>10 DEF IInv

\* An event of this request is collected: what it told is known now.
LEMMA CollectStep ==
  ASSUME IInv, pc = "reading", down # <<>>, down' = Tail(down), Head(down).id = n,
         Head(down).what = "EVENT", Collect(Head(down).event),
         UNCHANGED <<channel, subs, cause>>
  PROVE  IInv'
<1> USE DEF channel, Collect
<1> DEFINE e == down[1].event
<1>1. /\ down' \in Seq(DownFrame) /\ Len(down) \in Nat /\ Len(down) = Len(down') + 1
      /\ Len(down') \in Nat
      /\ \A j \in 1..Len(down') : down'[j] = down[j + 1]
      /\ Head(down) = down[1] /\ down[1].id = n /\ down[1].what = "EVENT"
      /\ down[1] \in DownFrame /\ 1 \in 1..Len(down)
  BY ReadShrinks DEF IInv
<1>2. \A j \in 1..Len(down') : j + 1 \in 1..Len(down) /\ down'[j] = down[j + 1] BY <1>1
<1>3. \A j \in 1..Len(down) : j = 1 \/ (j - 1 \in 1..Len(down') /\ down'[j - 1] = down[j])
  BY <1>1
<1>4. n \in Request /\ got \in [Request -> Seq(Event)] /\ e \in Event
  BY <1>1 DEF IInv, TypeOK, DownFrame
<1>5. /\ got' = [got EXCEPT ![n] = Append(got[n], e)]
      /\ got[n] \in Seq(Event) /\ Append(got[n], e) \in Seq(Event)
      /\ Len(got[n]) \in Nat /\ Len(Append(got[n], e)) = Len(got[n]) + 1
      /\ Append(got[n], e) # <<>>
      /\ \A j \in 1..Len(got[n]) : Append(got[n], e)[j] = got[n][j]
      /\ Append(got[n], e)[Len(got[n]) + 1] = e
  BY <1>1, <1>4, AppendProperties
<1>6. TypeOK' BY <1>1, <1>4, <1>5 DEF IInv, TypeOK, Filters, Request
<1>7. EventsAreReal'
  <2>1. Real(n, e) BY <1>1 DEF IInv, EventsAreReal
  <2>2. \A j \in 1..Len(got'[n]) : Real(n, got'[n][j])
    <3>1. TAKE j \in 1..Len(got'[n])
    <3>2. CASE j \in 1..Len(got[n])
      BY <1>4, <1>5, <3>2 DEF IInv, EventsAreReal
    <3>3. CASE j = Len(got[n]) + 1 BY <1>4, <1>5, <2>1, <3>3
    <3> QED BY <1>4, <1>5, <3>1, <3>2, <3>3
  <2>3. \A i \in Request : \A j \in 1..Len(got'[i]) : Real(i, got'[i][j])
    BY <1>4, <1>5, <2>2 DEF IInv, EventsAreReal
  <2>4. \A j \in 1..Len(down') : down'[j].what = "EVENT" => Real(down'[j].id, down'[j].event)
    BY <1>2 DEF IInv, EventsAreReal
  <2> QED BY <2>3, <2>4 DEF IInv, EventsAreReal, Real
<1>8. MembersComeFirst'
  <2>1. got'[1] # <<>>
    <3>1. CASE n = 1 BY <1>4, <1>5, <3>1
    <3>2. CASE n = 2 BY <1>4, <1>5, <3>2 DEF IInv, MembersComeFirst, Request
    <3> QED BY <1>4, <3>1, <3>2 DEF Request
  <2> QED BY <2>1 DEF MembersComeFirst
<1>9. ProfilesComeFirst'
  <2>1. CASE n = 1
    <3>1. \A j \in 1..Len(down') : down'[j].id = 1 BY <1>2, <2>1 DEF IInv, RequestsInTurn
    <3>2. pc' = "reading" /\ subs'[2].stage = "none" BY <2>1 DEF IInv, RequestsInTurn
    <3> QED BY <3>1, <3>2 DEF ProfilesComeFirst, Ends
  <2>2. CASE n = 2
    <3>1. Listed' = Listed BY <1>4, <1>5, <2>2 DEF Listed, Request
    <3>2. \A k : Known(k) => Known(k)'
      <4>1. \A j \in 1..Len(got[2]) : j \in 1..Len(got'[2]) /\ got'[2][j] = got[2][j]
        BY <1>4, <1>5, <2>2
      <4> QED BY <4>1 DEF Known
    <3>3. \A k : e[1] = k => Known(k)'
      <4>1. Len(got[2]) + 1 \in 1..Len(got'[2]) /\ got'[2][Len(got[2]) + 1] = e
        BY <1>4, <1>5, <2>2
      <4> QED BY <4>1 DEF Known
    <3>4. SUFFICES ASSUME NEW k \in Listed, ~Known(k)'
                   PROVE  /\ \A j \in 1..Len(down') : Ends(2, j)' =>
                               \E i \in 1..(j - 1) : Sent(2, i)' /\ down'[i].event[1] = k
                          /\ subs[2].stage = "stored" =>
                               \/ \E event \in subs[2].stored : event[1] = k
                               \/ \E j \in 1..Len(down') : Sent(2, j)' /\ down'[j].event[1] = k
      BY <3>1, <3>4 DEF ProfilesComeFirst
    <3>5. ~Known(k) /\ e[1] # k BY <3>2, <3>3, <3>4
    <3>6. ASSUME NEW j \in 1..Len(down'), Ends(2, j)'
          PROVE  \E i \in 1..(j - 1) : Sent(2, i)' /\ down'[i].event[1] = k
      <4>1. PICK i \in 1..j : Sent(2, i) /\ down[i].event[1] = k
        BY <1>2, <3>5, <3>6 DEF IInv, ProfilesComeFirst, Ends
      <4>2. i # 1 BY <3>5, <4>1
      <4>3. i - 1 \in 1..(j - 1) /\ i \in 1..Len(down) BY <1>1, <4>2
      <4> QED BY <1>3, <4>1, <4>2, <4>3 DEF Sent
    <3>7. ASSUME subs[2].stage = "stored", ~\E event \in subs[2].stored : event[1] = k
          PROVE  \E j \in 1..Len(down') : Sent(2, j)' /\ down'[j].event[1] = k
      <4>1. PICK i \in 1..Len(down) : Sent(2, i) /\ down[i].event[1] = k
        BY <3>5, <3>7 DEF IInv, ProfilesComeFirst
      <4>2. i # 1 BY <3>5, <4>1
      <4> QED BY <1>3, <4>1, <4>2 DEF Sent
    <3> QED BY <3>6, <3>7
  <2> QED BY <1>4, <2>1, <2>2 DEF Request
<1>10. RequestsInTurn'
  <2>1. CASE n = 1 BY <1>2, <2>1 DEF IInv, RequestsInTurn
  <2>2. CASE n = 2
    <3>1. Listed' = Listed BY <1>4, <1>5, <2>2 DEF Listed, Request
    <3> QED BY <2>2, <3>1 DEF IInv, RequestsInTurn
  <2> QED BY <1>4, <2>1, <2>2 DEF Request
<1>11. ClosedForCause' BY <1>2 DEF IInv, ClosedForCause
<1> QED BY <1>6, <1>7, <1>8, <1>9, <1>10, <1>11 DEF IInv

\* The end of an answer: everything it promised had come.
LEMMA FinishStep ==
  ASSUME IInv, pc = "reading", down # <<>>, down' = Tail(down), Head(down).id = n,
         Head(down).what = "EOSE", Finish, UNCHANGED <<channel, subs, cause>>
  PROVE  IInv'
<1> USE DEF channel, SubId
<1>1. /\ down' \in Seq(DownFrame) /\ Len(down) \in Nat /\ Len(down) = Len(down') + 1
      /\ Len(down') \in Nat
      /\ \A j \in 1..Len(down') : down'[j] = down[j + 1]
      /\ Head(down) = down[1] /\ down[1].id = n /\ down[1].what = "EOSE"
      /\ down[1] \in DownFrame /\ 1 \in 1..Len(down)
  BY ReadShrinks DEF IInv
<1>2. \A j \in 1..Len(down') : j + 1 \in 1..Len(down) /\ down'[j] = down[j + 1] BY <1>1
<1>3. n \in Request /\ up \in Seq(UpFrame) /\ Len(up) \in Nat BY DEF IInv, TypeOK
<1>4. Ends(n, 1) BY <1>1 DEF Ends
<1>5. got[1] # <<>>
  <2>1. CASE n = 1
    <3>1. ~\E i \in 1..(1 - 1) : Sent(1, i) OBVIOUS
    <3> QED BY <1>1, <1>4, <2>1, <3>1 DEF IInv, MembersComeFirst
  <2> QED BY <1>3, <2>1 DEF IInv, MembersComeFirst, Request
<1>6. got' = got BY DEF Finish
<1>7. Listed \subseteq Key /\ Keys(got[1]) = Listed BY ListedKeys DEF IInv, Listed
<1>8. EventsAreReal' BY <1>2, <1>6 DEF IInv, EventsAreReal, Real
<1>9. MembersComeFirst' BY <1>5, <1>6 DEF MembersComeFirst
<1>10. CASE n = 1 /\ Listed # {}
  <2> DEFINE two == <<Frame(1, "CLOSE", {}), Req(2, Listed)>>
  <2>1. up' = up \o two /\ n' = 2 /\ pc' = pc BY <1>7, <1>10 DEF Finish
  <2>2. /\ two \in Seq(UpFrame) /\ Len(two) = 2
        /\ two[1] = Frame(1, "CLOSE", {}) /\ two[2] = Req(2, Listed)
    BY <1>7 DEF UpFrame, Request
  <2> HIDE DEF two
  <2>3. /\ up' \in Seq(UpFrame) /\ Len(up') = Len(up) + 2
        /\ \A j \in 1..Len(up') : up'[j] = IF j <= Len(up) THEN up[j] ELSE two[j - Len(up)]
    <3>1. /\ up \o two \in Seq(UpFrame) /\ Len(up \o two) = Len(up) + Len(two)
          /\ \A j \in 1..(Len(up) + Len(two)) :
               (up \o two)[j] = IF j <= Len(up) THEN up[j] ELSE two[j - Len(up)]
      BY <1>3, <2>2, ConcatProperties
    <3> QED BY <2>1, <2>2, <3>1
  <2>4. \A j \in 1..Len(up') :
          \/ j \in 1..Len(up) /\ up'[j] = up[j]
          \/ up'[j] = Frame(1, "CLOSE", {}) \/ up'[j] = Req(2, Listed)
    <3>1. TAKE j \in 1..Len(up')
    <3>2. j \in 1..Len(up) \/ j - Len(up) = 1 \/ j - Len(up) = 2 BY <1>3, <2>3
    <3> QED BY <1>3, <2>2, <2>3, <3>2
  <2>5. TypeOK' BY <1>1, <1>6, <2>1, <2>3 DEF IInv, TypeOK, Filters, Request
  <2>6. ProfilesComeFirst'
    <3>1. \A j \in 1..Len(down') : down'[j].id = 1 BY <1>2, <1>10 DEF IInv, RequestsInTurn
    <3> QED BY <1>10, <2>1, <3>1 DEF IInv, RequestsInTurn, ProfilesComeFirst, Ends
  <2>7. RequestsInTurn'
    <3>1. Listed' = Listed BY <1>6 DEF Listed
    <3>2. ASSUME NEW j \in 1..Len(up'), up'[j].what = "REQ"
          PROVE  up'[j].event.request = up'[j].id /\ (up'[j].id = 2 => up'[j].event.authors = Listed)
      <4>1. CASE j \in 1..Len(up) /\ up'[j] = up[j]
        BY <3>2, <4>1 DEF IInv, RequestsInTurn
      <4>2. CASE up'[j] = Frame(1, "CLOSE", {}) BY <3>2, <4>2 DEF Frame
      <4>3. CASE up'[j] = Req(2, Listed) BY <4>3 DEF Req, Frame, Filter
      <4> QED BY <2>4, <4>1, <4>2, <4>3
    <3> QED BY <2>1, <3>1, <3>2 DEF IInv, RequestsInTurn
  <2>8. ClosedForCause'
    <3>1. ASSUME NEW j \in 1..Len(up'), up'[j].what = "CLOSE" PROVE up'[j].id < 2
      <4>1. CASE j \in 1..Len(up) /\ up'[j] = up[j]
        BY <1>10, <3>1, <4>1 DEF IInv, RequestsInTurn
      <4>2. CASE up'[j] = Frame(1, "CLOSE", {}) BY <4>2 DEF Frame
      <4>3. CASE up'[j] = Req(2, Listed) BY <3>1, <4>3 DEF Req, Frame
      <4> QED BY <2>4, <4>1, <4>2, <4>3
    <3>2. \A j \in 1..Len(down') : down'[j].id < 2 BY <1>2, <1>10 DEF IInv, RequestsInTurn
    <3> QED BY <2>1, <3>1, <3>2 DEF IInv, ClosedForCause
  <2> QED BY <1>8, <1>9, <2>5, <2>6, <2>7, <2>8 DEF IInv
<1>11. CASE ~(n = 1 /\ Listed # {})
  <2> DEFINE c == Frame(n, "CLOSE", {})
  <2>1. up' = Append(up, c) /\ pc' = "listed" /\ n' = n BY <1>7, <1>11 DEF Finish
  <2>2. c \in UpFrame /\ c.id = n /\ c.what = "CLOSE"
    <3>1. c \in UpFrame BY <1>3 DEF UpFrame
    <3> QED BY <3>1 DEF Frame
  <2> HIDE DEF c
  <2>3. /\ up' \in Seq(UpFrame) /\ Len(up') = Len(up) + 1
        /\ \A j \in 1..Len(up) : up'[j] = up[j]
        /\ up'[Len(up) + 1] = c
    BY <1>3, <2>1, <2>2, AppendProperties
  <2>4. \A j \in 1..Len(up') : (j \in 1..Len(up) /\ up'[j] = up[j]) \/ up'[j] = c
    BY <1>3, <2>3
  <2>5. TypeOK' BY <1>1, <1>6, <2>1, <2>3 DEF IInv, TypeOK, Filters, Request
  <2>6. ProfilesComeFirst'
    <3>1. Listed' = Listed /\ (\A k : Known(k)' <=> Known(k)) BY <1>6 DEF Listed, Known
    <3>2. \A k \in Listed : Known(k)
      <4>1. SUFFICES ASSUME NEW k \in Listed PROVE Known(k) OBVIOUS
      <4>2. n = 2 BY <1>3, <1>11, <4>1 DEF Request
      <4>3. ~\E i \in 1..(1 - 1) : Sent(2, i) /\ down[i].event[1] = k OBVIOUS
      <4> QED BY <1>1, <1>4, <4>2, <4>3 DEF IInv, ProfilesComeFirst
    <3> QED BY <3>1, <3>2 DEF ProfilesComeFirst
  <2>7. RequestsInTurn'
    <3>1. Listed' = Listed BY <1>6 DEF Listed
    <3>2. \A j \in 1..Len(up') : up'[j].what = "REQ" => j \in 1..Len(up) /\ up'[j] = up[j]
      BY <2>2, <2>4
    <3>3. n = 1 => \A j \in 1..Len(up') : up'[j].id = 1
      BY <2>2, <2>4 DEF IInv, RequestsInTurn
    <3>4. n = 1 => \A j \in 1..Len(down') : down'[j].id = 1
      BY <1>2 DEF IInv, RequestsInTurn
    <3> QED BY <2>1, <3>1, <3>2, <3>3, <3>4 DEF IInv, RequestsInTurn
  <2>8. ClosedForCause' BY <2>1 DEF ClosedForCause
  <2> QED BY <1>8, <1>9, <2>5, <2>6, <2>7, <2>8 DEF IInv
<1> QED BY <1>10, <1>11


\* The signer reads a frame: it collects it, finishes, drops it, or gives up, on
\* a CLOSED that can only be a refusal.
LEMMA ReceiveStep ==
  ASSUME IInv, Receive
  PROVE  IInv'
<1> DEFINE f == Head(down)
<1>1. /\ pc = "reading" /\ down # <<>> /\ down' = Tail(down)
      /\ UNCHANGED <<channel, subs, cause>>
  BY DEF Receive
<1>2. CASE f.id = n /\ f.what = "EVENT"
  <2>1. Collect(f.event) BY <1>2 DEF Receive, SubId
  <2> QED BY <1>1, <1>2, <2>1, CollectStep
<1>3. CASE f.id = n /\ f.what = "EOSE"
  <2>1. Finish BY <1>3 DEF Receive, SubId
  <2> QED BY <1>1, <1>3, <2>1, FinishStep
<1>4. CASE f.id = n /\ f.what = "CLOSED"
  <2>1. pc' = "failed" /\ UNCHANGED <<n, got, up>> BY <1>4 DEF Receive, SubId, GiveUp
  <2>2. f = down[1] /\ 1 \in 1..Len(down) BY <1>1, ReadShrinks DEF IInv
  <2>3. cause # {} BY <1>1, <1>4, <2>2 DEF IInv, ClosedForCause, TypeOK, Request
  <2> QED BY <1>1, <1>4, <2>1, <2>3, DropStep
<1>5. CASE ~(f.id = n /\ f.what \in {"EVENT", "EOSE", "CLOSED"})
  <2>1. UNCHANGED <<signer, up>> BY <1>5 DEF Receive, SubId
  <2>2. f.what \in {"EVENT", "EOSE", "CLOSED"}
    BY <1>1, ReadShrinks DEF IInv, DownFrame
  <2> QED BY <1>1, <1>5, <2>1, <2>2, DropStep DEF signer
<1> QED BY <1>2, <1>3, <1>4, <1>5

\* The connection breaks.
LEMMA BreakStep ==
  ASSUME IInv, Break
  PROVE  IInv'
<1> USE DEF Break, channel
<1>1. TypeOK' BY DEF IInv, TypeOK, Filters, Request
<1>2. EventsAreReal' BY DEF IInv, EventsAreReal, Real
<1>3. MembersComeFirst' BY DEF IInv, MembersComeFirst, Sent, Ends
<1>4. ProfilesComeFirst' BY DEF IInv, ProfilesComeFirst, Listed, Known, Sent, Ends
<1>5. RequestsInTurn' BY DEF IInv, RequestsInTurn, Listed
<1>6. ClosedForCause' BY DEF ClosedForCause
<1> QED BY <1>1, <1>2, <1>3, <1>4, <1>5, <1>6 DEF IInv

-----------------------------------------------------------------------------
(* The relay's steps preserve it: what is sent follows what was on its way. *)

\* What was on its way is still there, in the same order.
LEMMA GrowthKeeps ==
  ASSUME IInv, NEW new, Grows(new), got' = got, moments \subseteq moments'
  PROVE  /\ Listed' = Listed
         /\ \A k : Known(k) => Known(k)'
         /\ \A i, event : Real(i, event) => Real(i, event)'
         /\ \A j \in 1..Len(down) : j \in 1..Len(down') /\ down'[j] = down[j]
         /\ \A j \in 1..Len(down') : j \in 1..Len(down) \/ down'[j] \in new
         /\ \A j \in 1..Len(down) : Ends(1, j)' =>
              got[1] # <<>> \/ \E i \in 1..(j - 1) : Sent(1, i)'
         /\ \A k \in Listed : \A j \in 1..Len(down) : Ends(2, j)' =>
              Known(k)' \/ \E i \in 1..(j - 1) : Sent(2, i)' /\ down'[i].event[1] = k
<1>1. Listed' = Listed BY DEF Listed
<1>2. \A k : Known(k) => Known(k)' BY DEF Known
<1>3. \A i, event : Real(i, event) => Real(i, event)' BY DEF Real
<1>4. Len(down) \in Nat BY DEF IInv, TypeOK
<1>5. \A j \in 1..Len(down) : j \in 1..Len(down') /\ down'[j] = down[j] BY <1>4 DEF Grows
<1>6. \A j \in 1..Len(down') : j \in 1..Len(down) \/ down'[j] \in new BY <1>4 DEF Grows
<1>7. \A j \in 1..Len(down) : \A i \in 1..(j - 1) : i \in 1..Len(down) BY <1>4
<1>8. \A j \in 1..Len(down) : Ends(1, j)' =>
        got[1] # <<>> \/ \E i \in 1..(j - 1) : Sent(1, i)'
  BY <1>5, <1>7 DEF IInv, MembersComeFirst, Ends, Sent
<1>9. ASSUME NEW k \in Listed, NEW j \in 1..Len(down), Ends(2, j)', ~Known(k)'
      PROVE  \E i \in 1..(j - 1) : Sent(2, i)' /\ down'[i].event[1] = k
  <2>1. PICK i \in 1..(j - 1) : Sent(2, i) /\ down[i].event[1] = k
    BY <1>2, <1>5, <1>9 DEF IInv, ProfilesComeFirst, Ends
  <2> QED BY <1>5, <1>7, <2>1 DEF Sent
<1> QED BY <1>1, <1>2, <1>3, <1>5, <1>6, <1>8, <1>9

\* A frame taken by the relay leaves the others.
LEMMA TakenShrinks ==
  ASSUME TypeOK, up # <<>>, up' = Tail(up)
  PROVE  /\ up' \in Seq(UpFrame) /\ 1 \in 1..Len(up)
         /\ Head(up) = up[1] /\ up[1] \in UpFrame
         /\ \A j \in 1..Len(up') : j + 1 \in 1..Len(up) /\ up'[j] = up[j + 1]
<1>1. up \in Seq(UpFrame) BY DEF TypeOK
<1>2. Len(up) \in Nat \ {0} BY <1>1, EmptySeq
<1>3. /\ Tail(up) \in Seq(UpFrame) /\ Len(Tail(up)) = Len(up) - 1
      /\ \A j \in 1..Len(Tail(up)) : Tail(up)[j] = up[j + 1]
  BY <1>1, HeadTailProperties
<1>4. Head(up) = up[1] /\ up[1] \in UpFrame BY <1>1, <1>2, ElementOfSeq
<1> QED BY <1>2, <1>3, <1>4

\* A stored event is sent: it is now on its way.
LEMMA SendStoredStep ==
  ASSUME IInv, NEW id \in Request, SendStored(id)
  PROVE  IInv'
<1> USE DEF channel, signer
<1>1. PICK e \in subs[id].stored :
        /\ Send(id, "EVENT", e)
        /\ subs' = [subs EXCEPT ![id].stored = @ \ {e}]
  BY DEF SendStored
<1>2. /\ subs[id].stage = "stored" /\ UNCHANGED <<channel, signer, up, cause>>
  BY DEF SendStored
<1>3. e \in Event BY <1>1 DEF IInv, TypeOK
<1> DEFINE new == Frame(id, "EVENT", e)
<1>4. /\ Grows({new}) /\ Len(down') = Len(down) + 1 /\ down'[Len(down) + 1] = new
  BY <1>1, <1>3, SendGrows DEF IInv
<1>5. new.id = id /\ new.what = "EVENT" /\ new.event = e BY DEF Frame
<1> HIDE DEF new
<1>6. /\ Listed' = Listed /\ \A k : Known(k) => Known(k)'
      /\ \A i, event : Real(i, event) => Real(i, event)'
      /\ \A j \in 1..Len(down) : j \in 1..Len(down') /\ down'[j] = down[j]
      /\ \A j \in 1..Len(down') : j \in 1..Len(down) \/ down'[j] = new
      /\ \A j \in 1..Len(down) : Ends(1, j)' =>
           got[1] # <<>> \/ \E i \in 1..(j - 1) : Sent(1, i)'
      /\ \A k \in Listed : \A j \in 1..Len(down) : Ends(2, j)' =>
           Known(k)' \/ \E i \in 1..(j - 1) : Sent(2, i)' /\ down'[i].event[1] = k
  BY <1>2, <1>4, GrowthKeeps
<1>7. Len(down) \in Nat /\ Len(down) + 1 \in 1..Len(down') BY <1>4 DEF IInv, TypeOK
<1>8. /\ subs'[id].stored = subs[id].stored \ {e} /\ subs'[id].stage = "stored"
      /\ subs'[id].filter = subs[id].filter
      /\ \A i \in Request \ {id} : subs'[i] = subs[i]
  BY <1>1, <1>2 DEF IInv, TypeOK
<1>9. TypeOK'
  <2>1. down' \in Seq(DownFrame) BY <1>4 DEF Grows
  <2>2. subs' \in [Request -> [stage : {"none", "stored", "live"}, filter : Filters,
                               stored : SUBSET Event]]
    BY <1>1 DEF IInv, TypeOK
  <2> QED BY <1>2, <2>1, <2>2 DEF IInv, TypeOK
<1>10. EventsAreReal'
  <2>1. Real(id, e) BY <1>1 DEF IInv, EventsAreReal
  <2>2. \A j \in 1..Len(down') : (down[j].what = "EVENT" => Real(down[j].id, down[j].event))'
    <3>1. ASSUME NEW j \in 1..Len(down)
          PROVE  (down[j].what = "EVENT" => Real(down[j].id, down[j].event))'
      BY <1>2, <1>6 DEF IInv, EventsAreReal, Real
    <3> QED BY <1>2, <1>5, <1>6, <2>1, <3>1 DEF Real
  <2>3. \A i \in Request : \A event \in subs'[i].stored : Real(i, event)'
    BY <1>2, <1>8 DEF IInv, EventsAreReal, Real
  <2> QED BY <1>2, <2>2, <2>3 DEF IInv, EventsAreReal, Real
<1>11. MembersComeFirst'
  <2>1. \A j \in 1..Len(down') : Ends(1, j)' => got[1] # <<>> \/ \E i \in 1..(j - 1) : Sent(1, i)'
    BY <1>5, <1>6 DEF Ends
  <2>2. subs'[1].stage = "stored" =>
          subs'[1].stored # {} \/ got[1] # <<>> \/ \E j \in 1..Len(down') : Sent(1, j)'
    <3>1. CASE id = 1 BY <1>4, <1>5, <1>7, <3>1 DEF Sent
    <3>2. CASE id # 1 BY <1>6, <1>8, <3>2 DEF IInv, MembersComeFirst, Request, Sent
    <3> QED BY <3>1, <3>2
  <2> QED BY <1>2, <2>1, <2>2 DEF IInv, MembersComeFirst
<1>12. ProfilesComeFirst'
  <2>1. SUFFICES ASSUME NEW k \in Listed
                 PROVE  /\ pc = "listed" => Known(k)'
                        /\ \A j \in 1..Len(down') : Ends(2, j)' =>
                             Known(k)' \/ \E i \in 1..(j - 1) :
                               Sent(2, i)' /\ down'[i].event[1] = k
                        /\ subs'[2].stage = "stored" =>
                             \/ Known(k)' \/ (\E event \in subs'[2].stored : event[1] = k)
                             \/ \E j \in 1..Len(down') : Sent(2, j)' /\ down'[j].event[1] = k
    BY <1>2, <1>6, <2>1 DEF ProfilesComeFirst
  <2>2. pc = "listed" => Known(k)' BY <1>6 DEF IInv, ProfilesComeFirst
  <2>3. \A j \in 1..Len(down') : Ends(2, j)' =>
          Known(k)' \/ \E i \in 1..(j - 1) : Sent(2, i)' /\ down'[i].event[1] = k
    BY <1>5, <1>6 DEF Ends
  <2>4. ASSUME subs'[2].stage = "stored"
        PROVE  \/ Known(k)' \/ (\E event \in subs'[2].stored : event[1] = k)
               \/ \E j \in 1..Len(down') : Sent(2, j)' /\ down'[j].event[1] = k
    <3>1. subs[2].stage = "stored" BY <1>2, <1>8, <2>4 DEF Request
    <3>2. CASE Known(k) BY <1>6, <3>2
    <3>3. CASE \E event \in subs[2].stored : event[1] = k
      <4>1. PICK event \in subs[2].stored : event[1] = k BY <3>3
      <4>2. CASE id = 2 /\ event = e BY <1>4, <1>5, <1>7, <4>1, <4>2 DEF Sent
      <4>3. CASE ~(id = 2 /\ event = e) BY <1>8, <4>1, <4>3 DEF Request
      <4> QED BY <4>2, <4>3
    <3>4. CASE \E j \in 1..Len(down) : Sent(2, j) /\ down[j].event[1] = k
      BY <1>6, <3>4 DEF Sent
    <3> QED BY <3>1, <3>2, <3>3, <3>4 DEF IInv, ProfilesComeFirst
  <2> QED BY <2>2, <2>3, <2>4
<1>13. RequestsInTurn'
  <2>1. n = 1 => id = 1 BY <1>2 DEF IInv, RequestsInTurn, Request
  <2>2. n = 1 => /\ \A j \in 1..Len(down') : down'[j].id = 1
                 /\ subs'[2].stage = "none"
    BY <1>5, <1>6, <1>8, <2>1 DEF IInv, RequestsInTurn, Request
  <2>3. \A i \in Request : subs'[i].stage # "none" => subs'[i].filter.request = i
    BY <1>2, <1>8 DEF IInv, RequestsInTurn
  <2> QED BY <1>2, <1>6, <2>2, <2>3 DEF IInv, RequestsInTurn
<1>14. ClosedForCause' BY <1>2, <1>5, <1>6 DEF IInv, ClosedForCause
<1> QED BY <1>9, <1>10, <1>11, <1>12, <1>13, <1>14 DEF IInv

\* The end of the stored events is sent: they were all sent before.
LEMMA SendEoseStep ==
  ASSUME IInv, NEW id \in Request, SendEose(id)
  PROVE  IInv'
<1> USE DEF channel, signer
<1>1. /\ subs[id].stage = "stored" /\ subs[id].stored = {}
      /\ Send(id, "EOSE", {})
      /\ subs' = [subs EXCEPT ![id].stage = "live"]
      /\ UNCHANGED <<channel, signer, up, cause>>
  BY DEF SendEose
<1> DEFINE new == Frame(id, "EOSE", {})
<1>2. /\ Grows({new}) /\ Len(down') = Len(down) + 1 /\ down'[Len(down) + 1] = new
  <2>1. {} \in Event BY DEF Event, MemberEvent
  <2> QED BY <1>1, <2>1, SendGrows DEF IInv
<1>3. new.id = id /\ new.what = "EOSE" BY DEF Frame
<1> HIDE DEF new
<1>4. /\ Listed' = Listed /\ \A k : Known(k) => Known(k)'
      /\ \A i, event : Real(i, event) => Real(i, event)'
      /\ \A j \in 1..Len(down) : j \in 1..Len(down') /\ down'[j] = down[j]
      /\ \A j \in 1..Len(down') : j \in 1..Len(down) \/ down'[j] = new
      /\ \A j \in 1..Len(down) : Ends(1, j)' =>
           got[1] # <<>> \/ \E i \in 1..(j - 1) : Sent(1, i)'
      /\ \A k \in Listed : \A j \in 1..Len(down) : Ends(2, j)' =>
           Known(k)' \/ \E i \in 1..(j - 1) : Sent(2, i)' /\ down'[i].event[1] = k
  BY <1>1, <1>2, GrowthKeeps
<1>5. Len(down) \in Nat BY DEF IInv, TypeOK
<1>6. /\ subs'[id].stage = "live" /\ subs'[id].stored = {}
      /\ \A i \in Request \ {id} : subs'[i] = subs[i]
  BY <1>1 DEF IInv, TypeOK
<1>7. \A j \in 1..Len(down') : j \in 1..Len(down) \/ j = Len(down) + 1 BY <1>2, <1>5
<1>8. TypeOK'
  <2>1. down' \in Seq(DownFrame) BY <1>2 DEF Grows
  <2>2. subs' \in [Request -> [stage : {"none", "stored", "live"}, filter : Filters,
                               stored : SUBSET Event]]
    BY <1>1 DEF IInv, TypeOK
  <2> QED BY <1>1, <2>1, <2>2 DEF IInv, TypeOK
<1>9. EventsAreReal'
  <2>1. \A j \in 1..Len(down') : (down[j].what = "EVENT" => Real(down[j].id, down[j].event))'
    BY <1>1, <1>3, <1>4 DEF IInv, EventsAreReal, Real
  <2>2. \A i \in Request : \A event \in subs'[i].stored : Real(i, event)'
    BY <1>1, <1>6 DEF IInv, EventsAreReal, Real
  <2> QED BY <1>1, <2>1, <2>2 DEF IInv, EventsAreReal, Real
<1>10. MembersComeFirst'
  <2>1. \A j \in 1..Len(down') : Ends(1, j)' => got[1] # <<>> \/ \E i \in 1..(j - 1) : Sent(1, i)'
    <3>1. TAKE j \in 1..Len(down')
    <3>2. CASE j \in 1..Len(down) BY <1>4, <3>2
    <3>3. CASE j = Len(down) + 1 /\ id = 1
      <4>1. got[1] # <<>> \/ \E i \in 1..Len(down) : Sent(1, i)
        BY <1>1, <3>3 DEF IInv, MembersComeFirst
      <4> QED BY <1>4, <1>5, <3>3, <4>1 DEF Sent
    <3>4. CASE j = Len(down) + 1 /\ id # 1 BY <1>2, <1>3, <3>4 DEF Ends
    <3> QED BY <1>7, <3>1, <3>2, <3>3, <3>4
  <2>2. subs'[1].stage = "stored" =>
          subs'[1].stored # {} \/ got[1] # <<>> \/ \E j \in 1..Len(down') : Sent(1, j)'
    BY <1>4, <1>6 DEF IInv, MembersComeFirst, Request, Sent
  <2> QED BY <1>1, <2>1, <2>2 DEF IInv, MembersComeFirst
<1>11. ProfilesComeFirst'
  <2>1. SUFFICES ASSUME NEW k \in Listed
                 PROVE  /\ pc = "listed" => Known(k)'
                        /\ \A j \in 1..Len(down') : Ends(2, j)' =>
                             Known(k)' \/ \E i \in 1..(j - 1) :
                               Sent(2, i)' /\ down'[i].event[1] = k
                        /\ subs'[2].stage = "stored" =>
                             \/ Known(k)' \/ (\E event \in subs'[2].stored : event[1] = k)
                             \/ \E j \in 1..Len(down') : Sent(2, j)' /\ down'[j].event[1] = k
    BY <1>1, <1>4, <2>1 DEF ProfilesComeFirst
  <2>2. pc = "listed" => Known(k)' BY <1>4 DEF IInv, ProfilesComeFirst
  <2>3. \A j \in 1..Len(down') : Ends(2, j)' =>
          Known(k)' \/ \E i \in 1..(j - 1) : Sent(2, i)' /\ down'[i].event[1] = k
    <3>1. TAKE j \in 1..Len(down')
    <3>2. CASE j \in 1..Len(down) BY <1>4, <3>2
    <3>3. CASE j = Len(down) + 1 /\ id = 2
      <4>1. Known(k) \/ \E i \in 1..Len(down) : Sent(2, i) /\ down[i].event[1] = k
        BY <1>1, <3>3 DEF IInv, ProfilesComeFirst
      <4> QED BY <1>4, <1>5, <3>3, <4>1 DEF Sent
    <3>4. CASE j = Len(down) + 1 /\ id # 2 BY <1>2, <1>3, <3>4 DEF Ends
    <3> QED BY <1>7, <3>1, <3>2, <3>3, <3>4
  <2>4. subs'[2].stage = "stored" =>
          \/ Known(k)' \/ (\E event \in subs'[2].stored : event[1] = k)
          \/ \E j \in 1..Len(down') : Sent(2, j)' /\ down'[j].event[1] = k
    BY <1>4, <1>6 DEF IInv, ProfilesComeFirst, Request, Sent
  <2> QED BY <2>2, <2>3, <2>4
<1>12. RequestsInTurn'
  <2>1. n = 1 => id = 1 BY <1>1 DEF IInv, RequestsInTurn, Request
  <2>2. n = 1 => /\ \A j \in 1..Len(down') : down'[j].id = 1
                 /\ subs'[2].stage = "none"
    BY <1>3, <1>4, <1>6, <2>1 DEF IInv, RequestsInTurn, Request
  <2> QED BY <1>1, <1>4, <2>2 DEF IInv, RequestsInTurn
<1>13. ClosedForCause' BY <1>1, <1>3, <1>4 DEF IInv, ClosedForCause
<1> QED BY <1>8, <1>9, <1>10, <1>11, <1>12, <1>13 DEF IInv

\* More frames that end nothing, and fewer subscriptions, change nothing about
\* what comes first.
LEMMA MoreKeepsOrder ==
  ASSUME IInv, NEW new, Grows(new), \A f \in new : f.what # "EOSE",
         UNCHANGED signer, moments \subseteq moments',
         \A i \in Request : subs'[i] = subs[i] \/ subs'[i].stage = "none"
  PROVE  MembersComeFirst' /\ ProfilesComeFirst'
<1> USE DEF signer
<1>1. /\ Listed' = Listed /\ \A k : Known(k) => Known(k)'
      /\ \A j \in 1..Len(down) : j \in 1..Len(down') /\ down'[j] = down[j]
      /\ \A j \in 1..Len(down') : j \in 1..Len(down) \/ down'[j] \in new
      /\ \A j \in 1..Len(down) : Ends(1, j)' =>
           got[1] # <<>> \/ \E i \in 1..(j - 1) : Sent(1, i)'
      /\ \A k \in Listed : \A j \in 1..Len(down) : Ends(2, j)' =>
           Known(k)' \/ \E i \in 1..(j - 1) : Sent(2, i)' /\ down'[i].event[1] = k
  BY GrowthKeeps
<1>2. \A j \in 1..Len(down') : \A i : Ends(i, j)' => j \in 1..Len(down) BY <1>1 DEF Ends
<1>3. \A i \in Request : subs'[i].stage = "stored" => subs'[i] = subs[i] OBVIOUS
<1>4. MembersComeFirst'
  <2>1. subs'[1].stage = "stored" =>
          subs'[1].stored # {} \/ got[1] # <<>> \/ \E j \in 1..Len(down') : Sent(1, j)'
    BY <1>1, <1>3 DEF IInv, MembersComeFirst, Request, Sent
  <2> QED BY <1>1, <1>2, <2>1 DEF IInv, MembersComeFirst
<1>5. ProfilesComeFirst'
  <2>1. \A k \in Listed : subs'[2].stage = "stored" =>
          \/ Known(k)' \/ (\E event \in subs'[2].stored : event[1] = k)
          \/ \E j \in 1..Len(down') : Sent(2, j)' /\ down'[j].event[1] = k
    BY <1>1, <1>3 DEF IInv, ProfilesComeFirst, Request, Sent
  <2> QED BY <1>1, <1>2, <2>1 DEF IInv, ProfilesComeFirst
<1> QED BY <1>4, <1>5

\* A request is taken: what it asks for is stored, or it is refused.
LEMMA TakeReqStep ==
  ASSUME IInv, TakeReq
  PROVE  IInv'
<1> USE DEF channel, signer
<1> DEFINE id == up[1].id
           filter == up[1].event
<1>1. /\ up # <<>> /\ up' = Tail(up) /\ UNCHANGED <<channel, signer>>
      /\ Head(up).what = "REQ"
  BY DEF TakeReq
<1>2. /\ up' \in Seq(UpFrame) /\ 1 \in 1..Len(up) /\ Head(up) = up[1] /\ up[1] \in UpFrame
      /\ \A j \in 1..Len(up') : j + 1 \in 1..Len(up) /\ up'[j] = up[j + 1]
  BY <1>1, TakenShrinks DEF IInv
<1>3. id \in Request /\ filter \in Filters BY <1>1, <1>2, UpFrames
<1>4. filter.request = id /\ (id = 2 => filter.authors = Listed)
  BY <1>1, <1>2 DEF IInv, RequestsInTurn
<1>5. n = 1 => id = 1 BY <1>2 DEF IInv, RequestsInTurn
<1>6. CASE /\ subs' = [subs EXCEPT ![id] =
                 [stage |-> "stored", filter |-> filter, stored |-> Stored(filter)]]
           /\ UNCHANGED <<down, cause>>
  <2>1. filter.request \in Request /\ filter.authors \subseteq Key BY <1>3 DEF Filters
  <2>2. /\ members \in SUBSET Key /\ profile \in [Key -> Name \cup {None}]
        /\ subs \in [Request -> [stage : {"none", "stored", "live"}, filter : Filters,
                                 stored : SUBSET Event]]
    BY DEF IInv, TypeOK
  <2>3. \A event \in Stored(filter) : event \in Event /\ Real(id, event)
    <3>1. <<members, profile>> \in moments BY DEF IInv, EventsAreReal
    <3>2. CASE id = 1
      BY <1>4, <2>2, <3>1, <3>2 DEF Stored, Real, Event, MemberEvent
    <3>3. CASE id = 2
      <4>1. SUFFICES ASSUME NEW event \in Stored(filter)
                     PROVE  event \in Event /\ Real(2, event)
        BY <3>3
      <4>2. PICK k \in Key : event = <<k, profile[k]>> /\ profile[k] # None
        BY <1>4, <2>1, <3>3, <4>1 DEF Stored
      <4>3. event \in ProfileEvent BY <2>2, <4>2 DEF ProfileEvent
      <4> QED BY <3>1, <4>2, <4>3 DEF Event, Real
    <3> QED BY <1>3, <3>2, <3>3 DEF Request
  <2>4. /\ subs'[id] = [stage |-> "stored", filter |-> filter, stored |-> Stored(filter)]
        /\ \A i \in Request \ {id} : subs'[i] = subs[i]
    BY <1>3, <1>6, <2>2
  <2>5. TypeOK'
    <3>1. Stored(filter) \subseteq Event BY <2>3
    <3>2. subs' \in [Request -> [stage : {"none", "stored", "live"}, filter : Filters,
                                 stored : SUBSET Event]]
      <4> HIDE DEF id, filter
      <4> QED BY <1>3, <1>6, <2>2, <3>1
    <3> QED BY <1>1, <1>2, <1>6, <3>2 DEF IInv, TypeOK
  <2>6. EventsAreReal'
    <3>1. \A i \in Request : \A event \in subs'[i].stored : Real(i, event)
      BY <2>3, <2>4 DEF IInv, EventsAreReal
    <3>2. \A i, event : Real(i, event) <=> Real(i, event)' BY <1>1 DEF Real
    <3>3. \A i \in Request : \A event \in subs'[i].stored : Real(i, event)'
      BY <3>1, <3>2
    <3>4. \A j \in 1..Len(down') : (down[j].what = "EVENT" => Real(down[j].id, down[j].event))'
      BY <1>1, <1>6 DEF IInv, EventsAreReal, Real
    <3>5. \A i \in Request : \A j \in 1..Len(got'[i]) : Real(i, got[i][j])'
      BY <1>1 DEF IInv, EventsAreReal, Real
    <3> QED BY <1>1, <3>3, <3>4, <3>5 DEF IInv, EventsAreReal
  <2>7. MembersComeFirst'
    <3>1. subs'[1].stage = "stored" =>
            subs'[1].stored # {} \/ got[1] # <<>> \/ \E j \in 1..Len(down) : Sent(1, j)
      <4>1. CASE id = 1
        <5>1. Stored(filter) = {members} BY <1>4, <4>1 DEF Stored
        <5> QED BY <2>4, <4>1, <5>1
      <4>2. CASE id # 1 BY <2>4, <4>2 DEF IInv, MembersComeFirst, Request
      <4> QED BY <4>1, <4>2
    <3> QED BY <1>1, <1>6, <3>1 DEF IInv, MembersComeFirst, Sent, Ends
  <2>8. ProfilesComeFirst'
    <3>1. SUFFICES ASSUME NEW k \in Listed, subs'[2].stage = "stored"
                   PROVE  \/ Known(k) \/ (\E event \in subs'[2].stored : event[1] = k)
                          \/ \E j \in 1..Len(down) : Sent(2, j) /\ down[j].event[1] = k
      BY <1>1, <1>6, <3>1 DEF IInv, ProfilesComeFirst, Listed, Known, Sent, Ends
    <3>2. CASE id = 2
      <4>1. k \in Key BY ListedKeys DEF IInv
      <4>2. <<members, profile>> \in moments BY DEF IInv, EventsAreReal
      <4>3. CASE profile[k] = None BY <4>2, <4>3 DEF Known
      <4>4. CASE profile[k] # None
        <5>1. <<k, profile[k]>> \in Stored(filter) BY <1>4, <3>2, <4>4 DEF Stored
        <5> QED BY <2>4, <3>2, <5>1
      <4> QED BY <4>3, <4>4
    <3>3. CASE id # 2 BY <2>4, <3>1, <3>3 DEF IInv, ProfilesComeFirst, Request
    <3> QED BY <3>2, <3>3
  <2>9. RequestsInTurn'
    <3>1. n = 1 => subs'[2].stage = "none" BY <1>5, <2>4 DEF IInv, RequestsInTurn, Request
    <3> QED BY <1>1, <1>2, <1>6, <3>1 DEF IInv, RequestsInTurn, Listed
  <2>10. ClosedForCause' BY <1>1, <1>2, <1>6 DEF IInv, ClosedForCause
  <2> QED BY <2>5, <2>6, <2>7, <2>8, <2>9, <2>10 DEF IInv
<1>7. CASE /\ Send(id, "CLOSED", {}) /\ cause' = cause \cup {"refused"}
           /\ UNCHANGED subs
  <2> DEFINE new == Frame(id, "CLOSED", {})
  <2>1. Grows({new})
    <3>1. {} \in Event BY DEF Event, MemberEvent
    <3> QED BY <1>3, <1>7, <3>1, SendGrows DEF IInv
  <2>2. new.id = id /\ new.what = "CLOSED" BY DEF Frame
  <2> HIDE DEF new
  <2>3. /\ Listed' = Listed
        /\ \A j \in 1..Len(down) : j \in 1..Len(down') /\ down'[j] = down[j]
        /\ \A j \in 1..Len(down') : j \in 1..Len(down) \/ down'[j] = new
    BY <1>1, <2>1, GrowthKeeps
  <2>4. MembersComeFirst' /\ ProfilesComeFirst' BY <1>1, <1>7, <2>1, <2>2, MoreKeepsOrder
  <2>5. TypeOK' BY <1>1, <1>2, <1>7, <2>1 DEF IInv, TypeOK, Grows
  <2>6. EventsAreReal'
    <3>1. \A j \in 1..Len(down') : (down[j].what = "EVENT" => Real(down[j].id, down[j].event))'
      BY <1>1, <2>2, <2>3 DEF IInv, EventsAreReal, Real
    <3> QED BY <1>1, <1>7, <3>1 DEF IInv, EventsAreReal, Real
  <2>7. RequestsInTurn'
    <3>1. n = 1 => \A j \in 1..Len(down') : down'[j].id = 1
      BY <1>5, <2>2, <2>3 DEF IInv, RequestsInTurn
    <3> QED BY <1>1, <1>2, <1>7, <2>3, <3>1 DEF IInv, RequestsInTurn
  <2>8. ClosedForCause' BY <1>1, <1>2, <1>7 DEF IInv, ClosedForCause
  <2> QED BY <2>4, <2>5, <2>6, <2>7, <2>8 DEF IInv
<1> QED BY <1>2, <1>6, <1>7 DEF TakeReq

\* A CLOSE is taken and acknowledged: while the signer reads, it is an earlier
\* request's.
LEMMA TakeCloseStep ==
  ASSUME IInv, TakeClose
  PROVE  IInv'
<1> USE DEF channel, signer
<1> DEFINE id == up[1].id
<1>1. /\ up # <<>> /\ up' = Tail(up) /\ UNCHANGED <<channel, signer, cause>>
      /\ Head(up).what = "CLOSE"
  BY DEF TakeClose
<1>2. /\ up' \in Seq(UpFrame) /\ 1 \in 1..Len(up) /\ Head(up) = up[1] /\ up[1] \in UpFrame
      /\ \A j \in 1..Len(up') : j + 1 \in 1..Len(up) /\ up'[j] = up[j + 1]
  BY <1>1, TakenShrinks DEF IInv
<1>3. subs' = [subs EXCEPT ![id] = NoSub] /\ Send(id, "CLOSED", {})
  BY <1>2 DEF TakeClose
<1>4. id \in Request BY <1>2, UpFrames
<1>5. n = 1 => id = 1 BY <1>2 DEF IInv, RequestsInTurn
<1>6. pc = "reading" => id < n BY <1>1, <1>2 DEF IInv, ClosedForCause
<1> DEFINE new == Frame(id, "CLOSED", {})
<1>7. Grows({new})
  <2>1. {} \in Event BY DEF Event, MemberEvent
  <2> QED BY <1>3, <1>4, <2>1, SendGrows DEF IInv
<1>8. new.id = id /\ new.what = "CLOSED" BY DEF Frame
<1> HIDE DEF new
<1>9. /\ Listed' = Listed
      /\ \A j \in 1..Len(down) : j \in 1..Len(down') /\ down'[j] = down[j]
      /\ \A j \in 1..Len(down') : j \in 1..Len(down) \/ down'[j] = new
  BY <1>1, <1>7, GrowthKeeps
<1>10. /\ subs'[id] = NoSub /\ \A i \in Request \ {id} : subs'[i] = subs[i]
  BY <1>3, <1>4 DEF IInv, TypeOK
<1>11. NoSub.stage = "none" /\ NoSub.stored = {} BY DEF NoSub
<1>12. MembersComeFirst' /\ ProfilesComeFirst'
  BY <1>1, <1>7, <1>8, <1>10, <1>11, MoreKeepsOrder
<1>13. TypeOK'
  <2>1. NoSub \in [stage : {"none", "stored", "live"}, filter : Filters, stored : SUBSET Event]
    BY DEF NoSub, Filter, Filters, Request
  <2>2. subs' \in [Request -> [stage : {"none", "stored", "live"}, filter : Filters,
                               stored : SUBSET Event]]
    BY <1>3, <2>1 DEF IInv, TypeOK
  <2> QED BY <1>1, <1>2, <1>7, <2>2 DEF IInv, TypeOK, Grows
<1>14. EventsAreReal'
  <2>1. \A j \in 1..Len(down') : (down[j].what = "EVENT" => Real(down[j].id, down[j].event))'
    BY <1>1, <1>8, <1>9 DEF IInv, EventsAreReal, Real
  <2>2. \A i \in Request : \A event \in subs'[i].stored : Real(i, event)
    BY <1>10, <1>11 DEF IInv, EventsAreReal
  <2> QED BY <1>1, <2>1, <2>2 DEF IInv, EventsAreReal, Real
<1>15. RequestsInTurn'
  <2>1. n = 1 => /\ \A j \in 1..Len(down') : down'[j].id = 1
                 /\ subs'[2].stage = "none"
    BY <1>5, <1>8, <1>9, <1>10, <1>11 DEF IInv, RequestsInTurn, Request
  <2>2. \A i \in Request : subs'[i].stage # "none" => subs'[i].filter.request = i
    BY <1>10, <1>11 DEF IInv, RequestsInTurn
  <2> QED BY <1>1, <1>2, <1>9, <2>1, <2>2 DEF IInv, RequestsInTurn
<1>16. ClosedForCause'
  BY <1>1, <1>2, <1>6, <1>8, <1>9 DEF IInv, ClosedForCause
<1> QED BY <1>12, <1>13, <1>14, <1>15, <1>16 DEF IInv

\* Others change the members or a profile: the event that tells of it is real.
LEMMA ChangedStep ==
  ASSUME IInv, pc = "reading", Changed, NEW i \in Request, NEW author, NEW event \in Event,
         Push(i, author, event), members' \in SUBSET Key,
         profile' \in [Key -> Name \cup {None}],
         IF i = 1 THEN event = members' ELSE event = <<author, profile'[author]>> /\ event \in ProfileEvent
  PROVE  IInv'
<1> USE DEF signer
<1> DEFINE open == {id \in Request : subs[id].stage # "none" /\ Matches(subs[id].filter, i, author)}
           new == {Frame(id, "EVENT", event) : id \in open}
<1>1. /\ UNCHANGED <<signer, subs, up, cause>> /\ changes' = changes + 1
      /\ moments' = moments \cup {<<members', profile'>>}
  BY DEF Changed
<1>2. Grows(new) BY PushGrows DEF IInv
<1>3. \A f \in new : f.what = "EVENT" /\ f.event = event /\ \E id \in open : f.id = id
  BY DEF Frame
<1>4. \A f \in new : f.id \in Request /\ subs[f.id].stage # "none"
                     /\ subs[f.id].filter.request = i
  BY <1>3 DEF Matches
<1> HIDE DEF new
<1>5. /\ Listed' = Listed
      /\ \A id, x : Real(id, x) => Real(id, x)'
      /\ \A j \in 1..Len(down) : j \in 1..Len(down') /\ down'[j] = down[j]
      /\ \A j \in 1..Len(down') : j \in 1..Len(down) \/ down'[j] \in new
  BY <1>1, <1>2, GrowthKeeps
<1>6. MembersComeFirst' /\ ProfilesComeFirst' BY <1>1, <1>2, <1>3, MoreKeepsOrder
<1>7. TypeOK'
  <2>1. down' \in Seq(DownFrame) BY <1>2 DEF Grows
  <2>2. moments' \subseteq Moment BY <1>1 DEF IInv, TypeOK, Moment
  <2> QED BY <1>1, <2>1, <2>2 DEF IInv, TypeOK
<1>8. EventsAreReal'
  <2>1. <<members', profile'>> \in moments' BY <1>1
  <2>2. Real(i, event)'
    <3>1. CASE i = 1 BY <2>1, <3>1 DEF Real
    <3>2. CASE i = 2 BY <2>1, <3>2 DEF Real
    <3> QED BY <3>1, <3>2 DEF Request
  <2>3. \A f \in new : f.id = i BY <1>4 DEF IInv, RequestsInTurn
  <2>4. \A j \in 1..Len(down') : (down[j].what = "EVENT" => Real(down[j].id, down[j].event))'
    <3>1. \A f \in new : f.id = i /\ f.event = event BY <1>3, <2>3
    <3>2. ASSUME NEW j \in 1..Len(down), (down[j].what = "EVENT")'
          PROVE  Real(down[j].id, down[j].event)'
      <4>1. down'[j] = down[j] /\ down[j].what = "EVENT" BY <1>5, <3>2
      <4>2. down[j].id \in Request
        <5>1. down \in Seq(DownFrame) BY DEF IInv, TypeOK
        <5>2. down[j] \in DownFrame BY <5>1, ElementOfSeq
        <5> QED BY <5>2 DEF DownFrame
      <4>3. Real(down[j].id, down[j].event) BY <4>1 DEF IInv, EventsAreReal
      <4> QED BY <1>1, <4>1, <4>2, <4>3 DEF Real
    <3> QED BY <1>5, <2>2, <3>1, <3>2
  <2>5. \A id \in Request : \A x \in subs'[id].stored : Real(id, x)'
    BY <1>1, <1>5 DEF IInv, EventsAreReal
  <2>6. \A id \in Request : \A j \in 1..Len(got[id]) : Real(id, got[id][j])'
    BY <1>1 DEF IInv, EventsAreReal, Real
  <2> QED BY <1>1, <2>1, <2>4, <2>5, <2>6 DEF EventsAreReal
<1>9. RequestsInTurn'
  <2>1. n = 1 => \A j \in 1..Len(down') : down'[j].id = 1
    BY <1>4, <1>5 DEF IInv, RequestsInTurn, Request
  <2> QED BY <1>1, <1>5, <2>1 DEF IInv, RequestsInTurn
<1>10. ClosedForCause' BY <1>1, <1>3, <1>5 DEF IInv, ClosedForCause
<1> QED BY <1>6, <1>7, <1>8, <1>9, <1>10 DEF IInv

LEMMA ChangeMembersStep ==
  ASSUME IInv, ChangeMembers
  PROVE  IInv'
<1>1. PICK k \in Key :
        members' = IF k \in members THEN members \ {k} ELSE members \cup {k}
  BY DEF ChangeMembers
<1>2. members' \in SUBSET Key BY <1>1 DEF IInv, TypeOK
<1>3. PICK m \in SUBSET Key : m = members' BY <1>2
<1>4. m \in Event BY DEF Event, MemberEvent
<1>5. /\ pc = "reading" /\ Changed /\ Push(1, None, m)
      /\ profile' \in [Key -> Name \cup {None}]
  BY <1>3 DEF ChangeMembers, IInv, TypeOK
<1> QED BY <1>2, <1>3, <1>4, <1>5, ChangedStep DEF Request

LEMMA RenameStep ==
  ASSUME IInv, NEW k \in Key, NEW name \in Name, Rename(k, name)
  PROVE  IInv'
<1>1. /\ pc = "reading" /\ Changed /\ Push(2, k, <<k, name>>)
      /\ profile' = [profile EXCEPT ![k] = name] /\ members' = members
  BY DEF Rename
<1>2. profile' \in [Key -> Name \cup {None}] /\ profile'[k] = name
  BY <1>1 DEF IInv, TypeOK
<1>3. <<k, name>> \in ProfileEvent /\ <<k, name>> \in Event BY DEF Event, ProfileEvent
<1>4. members' \in SUBSET Key BY <1>1 DEF IInv, TypeOK
<1>5. 2 \in Request /\ <<k, name>> = <<k, profile'[k]>> BY <1>2 DEF Request
<1> QED BY <1>1, <1>2, <1>3, <1>4, <1>5, ChangedStep

-----------------------------------------------------------------------------
\* The invariant is true of every reachable state.
THEOREM InductiveInvariant == Spec => []IInv
<1>1. Init => IInv
  <2>1. SUFFICES ASSUME Init PROVE IInv OBVIOUS
  <2>2. up = <<Req(1, {})>> /\ Req(1, {}) \in UpFrame
    BY <2>1 DEF Init, UpFrame, Request
  <2>3. up \in Seq(UpFrame) /\ Len(up) = 1 /\ up[1] = Req(1, {}) BY <2>2
  <2>4. down = <<>> /\ Len(down) = 0 /\ down \in Seq(DownFrame) BY <2>1 DEF Init
  <2>5. \A i \in Request : subs[i] = NoSub /\ got[i] = <<>> /\ Len(got[i]) = 0
    BY <2>1 DEF Init
  <2>6. NoSub \in [stage : {"none", "stored", "live"}, filter : Filters, stored : SUBSET Event]
    BY DEF NoSub, Filter, Filters, Request
  <2>7. NoSub.stage = "none" /\ NoSub.stored = {} BY DEF NoSub
  <2>8. TypeOK BY <2>1, <2>3, <2>4, <2>6 DEF Init, TypeOK, Moment, Request
  <2>9. EventsAreReal BY <2>1, <2>4, <2>5, <2>7 DEF Init, EventsAreReal
  <2>10. MembersComeFirst BY <2>1, <2>4, <2>5, <2>7 DEF Init, MembersComeFirst, Request
  <2>11. ProfilesComeFirst BY <2>1, <2>4, <2>5, <2>7 DEF Init, ProfilesComeFirst, Request
  <2>12. RequestsInTurn
    BY <2>3, <2>4, <2>5, <2>7 DEF RequestsInTurn, Req, Frame, Filter, SubId, Request
  <2>13. ClosedForCause BY <2>1, <2>3, <2>4 DEF Init, ClosedForCause, Req, Frame
  <2> QED BY <2>8, <2>9, <2>10, <2>11, <2>12, <2>13 DEF IInv
<1>2. IInv /\ [Next]_vars => IInv'
  <2>1. SUFFICES ASSUME IInv, [Next]_vars PROVE IInv' OBVIOUS
  <2>2. CASE Receive BY <2>1, <2>2, ReceiveStep
  <2>3. CASE Break BY <2>1, <2>3, BreakStep
  <2>4. CASE TakeReq BY <2>1, <2>4, TakeReqStep
  <2>5. CASE TakeClose BY <2>1, <2>5, TakeCloseStep
  <2>6. CASE \E id \in Request : SendStored(id) BY <2>1, <2>6, SendStoredStep
  <2>7. CASE \E id \in Request : SendEose(id) BY <2>1, <2>7, SendEoseStep
  <2>8. CASE ChangeMembers BY <2>1, <2>8, ChangeMembersStep
  <2>9. CASE \E k \in Key, name \in Name : Rename(k, name) BY <2>1, <2>9, RenameStep
  <2>10. CASE UNCHANGED vars
    <3> USE <2>1, <2>10 DEF vars, IInv
    <3>1. TypeOK' BY DEF TypeOK
    <3>2. EventsAreReal' BY DEF EventsAreReal, Real
    <3>3. MembersComeFirst' BY DEF MembersComeFirst, Sent, Ends
    <3>4. ProfilesComeFirst' BY DEF ProfilesComeFirst, Listed, Known, Sent, Ends
    <3>5. RequestsInTurn' BY DEF RequestsInTurn, Listed
    <3>6. ClosedForCause' BY DEF ClosedForCause
    <3> QED BY <3>1, <3>2, <3>3, <3>4, <3>5, <3>6
  <2> QED BY <2>1, <2>2, <2>3, <2>4, <2>5, <2>6, <2>7, <2>8, <2>9, <2>10 DEF Next
<1> QED BY <1>1, <1>2, PTL DEF Spec

\* A listing fails only if the connection did or the relay refused a request.
THEOREM FailsForCause == Spec => []FailsOnlyForCause
<1>1. IInv => FailsOnlyForCause BY DEF IInv, ClosedForCause, FailsOnlyForCause
<1> QED BY <1>1, InductiveInvariant, PTL

-----------------------------------------------------------------------------
(* What the answer says of the channel. *)

\* The last of some positions is one of them.
LEMMA MaxInSet ==
  ASSUME NEW len \in Nat, NEW S \in SUBSET (1..len), S # {}
  PROVE  Max(S) \in S
<1> DEFINE T == {m \in Nat : len - m \in S}
<1>1. PICK s \in S : TRUE OBVIOUS
<1>2. len - s \in T BY <1>1
<1>3. PICK x \in T : \A y \in T : ~(<<y, x>> \in OpToRel(<, Nat))
  <2> HIDE DEF T
  <2>1. T \subseteq Nat BY DEF T
  <2> QED BY <1>2, <2>1, WFMin, NatLessThanWellFounded
<1>4. \A y \in T : ~(y < x) BY <1>3 DEF OpToRel
<1>5. len - x \in S BY DEF T
<1>6. \A i \in S : len - x >= i
  <2>1. TAKE i \in S
  <2>2. len - i \in T BY DEF T
  <2>3. ~(len - i < x) BY <1>4, <2>2
  <2>4. x \in Nat /\ i \in Nat BY DEF T
  <2> QED BY <2>3, <2>4
<1> QED BY <1>5, <1>6 DEF Max

\* A key's name is one it had, if its profile was asked for.
LEMMA NameIsReal ==
  ASSUME IInv, NEW k \in Listed, Known(k)
  PROVE  \E m \in moments : HasName(m, k, NameOf(k))
<1> DEFINE of == {i \in DOMAIN got[2] : got[2][i][1] = k}
<1>1. got[2] \in Seq(Event) /\ DOMAIN got[2] = 1..Len(got[2]) /\ Len(got[2]) \in Nat
  BY DEF IInv, TypeOK, Request
<1>2. CASE of = {}
  <2>1. NameOf(k) = None BY <1>2 DEF NameOf
  <2>2. \E m \in moments : m[2][k] = None BY <1>1, <1>2 DEF Known
  <2> QED BY <2>1, <2>2 DEF HasName
<1>3. CASE of # {}
  <2>1. Max(of) \in of
    <3>1. of \in SUBSET (1..Len(got[2])) BY <1>1
    <3> HIDE DEF of
    <3> QED BY <1>1, <1>3, <3>1, MaxInSet
  <2>2. PICK i \in 1..Len(got[2]) : i = Max(of) /\ got[2][i][1] = k BY <1>1, <2>1
  <2>3. NameOf(k) = got[2][i][2] BY <1>3, <2>2 DEF NameOf
  <2>4. Real(2, got[2][i]) BY DEF IInv, EventsAreReal, Request
  <2>5. PICK m \in moments : m[2][got[2][i][1]] = got[2][i][2] BY <2>4 DEF Real
  <2> HIDE DEF of
  <2> QED BY <2>2, <2>3, <2>5 DEF HasName
<1> QED BY <1>2, <1>3

\* The answer fits the channel: everyone who was in it throughout is listed, who
\* is listed was in it and had that name, and a name stands for a member only if
\* no other one had it all along.
THEOREM AnswersFit == Spec => []AnswerFitsTheChannel
<1>1. ASSUME IInv PROVE AnswerFitsTheChannel
  <2>1. SUFFICES ASSUME pc = "listed"
                 PROVE  /\ \A k \in Key : (\A m \in moments : MemberAt(m, k)) => k \in Listed
                        /\ \A k \in Listed :
                             /\ \E m \in moments : MemberAt(m, k)
                             /\ \E m \in moments : HasName(m, k, NameOf(k))
                        /\ \A name \in Name : Resolve(name) # None =>
                             \A k \in Key \ {Resolve(name)} :
                               \E m \in moments : ~MemberAt(m, k) \/ ~HasName(m, k, name)
    BY DEF AnswerFitsTheChannel
  <2>2. /\ Listed = UNION {got[1][j] : j \in 1..Len(got[1])} /\ Listed \subseteq Key
        /\ \A j \in 1..Len(got[1]) : got[1][j] \subseteq Listed
    BY <1>1, ListedKeys DEF IInv
  <2>3. \A j \in 1..Len(got[1]) : \E m \in moments : m[1] = got[1][j]
    BY <1>1 DEF IInv, EventsAreReal, Real, Request
  <2>4. \A k \in Key : (\A m \in moments : MemberAt(m, k)) => k \in Listed
    <3>1. got[1] # <<>> /\ got[1] \in Seq(Event)
      BY <1>1, <2>1 DEF IInv, MembersComeFirst, TypeOK, Request
    <3>2. 1 \in 1..Len(got[1])
      <4>1. Len(got[1]) \in Nat \ {0} BY <3>1, EmptySeq
      <4> QED BY <4>1
    <3> QED BY <2>2, <2>3, <3>2 DEF MemberAt
  <2>5. \A k \in Listed : \E m \in moments : MemberAt(m, k)
    BY <2>2, <2>3 DEF MemberAt
  <2>6. \A k \in Listed : \E m \in moments : HasName(m, k, NameOf(k))
    BY <1>1, <2>1, NameIsReal DEF IInv, ProfilesComeFirst
  <2>7. ASSUME NEW name \in Name, Resolve(name) # None, NEW k \in Key \ {Resolve(name)},
               \A m \in moments : MemberAt(m, k) /\ HasName(m, k, name)
        PROVE  FALSE
    <3>1. IsFiniteSet(Named(name))
      <4>1. Named(name) \in SUBSET Key BY <2>2 DEF Named
      <4> QED BY <4>1, SessionAssumption, FS_Subset
    <3>2. PICK r : Named(name) = {r} BY <2>7, <3>1, FS_Singleton DEF Resolve
    <3>3. Resolve(name) = r BY <2>7, <3>2 DEF Resolve
    <3>4. k \in Listed BY <2>4, <2>7
    <3>5. NameOf(k) = name BY <2>6, <2>7, <3>4 DEF HasName
    <3> QED BY <2>7, <3>2, <3>3, <3>4, <3>5 DEF Named
  <2> QED BY <2>4, <2>5, <2>6, <2>7
<1>2. IInv => AnswerFitsTheChannel BY <1>1
<1> QED BY <1>2, InductiveInvariant, PTL
=============================================================================

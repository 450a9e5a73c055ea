--------------------------- MODULE SignerSession ---------------------------
(***************************************************************************)
(* `buzz-fleet-signer channel-members`: two requests, one after the other, *)
(* on one connection to the relay - the members of a channel, then their   *)
(* profiles - and what its caller resolves a name to.  The relay           *)
(* (external) answers a request with what it has stored, says where that   *)
(* ends, goes on with what is new, and acknowledges a CLOSE, all of it on  *)
(* the same connection, so that frames of the first request are read       *)
(* during the second.                                                      *)
(***************************************************************************)
EXTENDS Naturals, FiniteSets, SequencesExt

CONSTANTS
  Key,         \* public keys
  Name,        \* display names that differ in more than case and blanks
  None,        \* no profile
  MaxChanges   \* bound: what others change while a listing runs

ASSUME SessionAssumption ==
  /\ IsFiniteSet(Key) /\ MaxChanges \in Nat
  /\ None \notin Name \cup Key

Request == 1..2

VARIABLES
  members,     \* the channel's members
  profile,     \* each key's profile
  subs,        \* the relay's subscriptions, by the id the signer gave them
  up, down,    \* frames on their way to the relay and to the signer
  pc,          \* "reading", "listed" or "failed"
  n,           \* the request whose answer is read
  got,         \* the events collected, per request
  changes,     \* how much has changed
  moments,     \* history: what members and profiles were since the call began
  cause        \* history: why the call may fail

vars == <<members, profile, subs, up, down, pc, n, got, changes, moments, cause>>
channel == <<members, profile, changes, moments>>
signer == <<pc, n, got>>

-----------------------------------------------------------------------------
SameSub(i) == 1             \* bug: one id for every request of the session
\* A fresh UUID names each request.
SubId(i) == i

Keys(events) == UNION Range(events)
Frame(id, what, event) == [id |-> id, what |-> what, event |-> event]
\* What is asked for: the channel's members, or the profiles of authors.
Filter(i, authors) == [request |-> i, authors |-> authors]
Req(i, authors) == Frame(SubId(i), "REQ", Filter(i, authors))

NoSub == [stage |-> "none", filter |-> Filter(1, {}), stored |-> {}]

Init ==
  /\ members \in SUBSET Key
  /\ profile \in [Key -> Name \cup {None}]
  /\ subs = [i \in Request |-> NoSub]
  /\ up = <<Req(1, {})>> /\ down = <<>>
  /\ pc = "reading" /\ n = 1
  /\ got = [i \in Request |-> <<>>]
  /\ changes = 0
  /\ moments = {<<members, profile>>}
  /\ cause = {}

-----------------------------------------------------------------------------
(* The signer: collect_events, twice. *)

Collect(event) ==
  /\ got' = [got EXCEPT ![n] = Append(@, event)]
  /\ UNCHANGED <<pc, n, up>>

\* The end of the stored events: this request is closed; the profiles of the
\* members are asked for, if there are any.
Finish ==
  /\ IF n = 1 /\ Keys(got[1]) # {}
       THEN /\ up' = up \o <<Frame(SubId(1), "CLOSE", {}), Req(2, Keys(got[1]))>>
            /\ n' = 2 /\ UNCHANGED pc
       ELSE /\ up' = Append(up, Frame(SubId(n), "CLOSE", {}))
            /\ pc' = "listed" /\ UNCHANGED n
  /\ UNCHANGED got

GiveUp == pc' = "failed" /\ UNCHANGED <<n, got, up>>

\* A frame is this request's or it is dropped.
Receive ==
  /\ pc = "reading" /\ down # <<>>
  /\ down' = Tail(down)
  /\ LET f == Head(down) IN
     CASE f.id = SubId(n) /\ f.what = "EVENT"  -> Collect(f.event)
       [] f.id = SubId(n) /\ f.what = "EOSE"   -> Finish
       [] f.id = SubId(n) /\ f.what = "CLOSED" -> GiveUp
       [] OTHER -> UNCHANGED <<signer, up>>
  /\ UNCHANGED <<channel, subs, cause>>

\* The connection fails, or nothing comes for thirty seconds.
Break ==
  /\ pc = "reading"
  /\ pc' = "failed"
  /\ cause' = cause \cup {"broken"}
  /\ UNCHANGED <<channel, subs, up, down, n, got>>

-----------------------------------------------------------------------------
(* The relay. *)

\* The latest membership list, or each author's latest profile.
Stored(filter) ==
  IF filter.request = 1 THEN {members}
  ELSE {<<k, profile[k]>> : k \in {author \in filter.authors : profile[author] # None}}

Send(id, what, event) == down' = Append(down, Frame(id, what, event))

TakeReq ==
  /\ up # <<>> /\ Head(up).what = "REQ"
  /\ up' = Tail(up)
  /\ LET id == Head(up).id  filter == Head(up).event IN
     \/ /\ subs' = [subs EXCEPT ![id] =
              [stage |-> "stored", filter |-> filter, stored |-> Stored(filter)]]
        /\ UNCHANGED <<down, cause>>
     \/ /\ Send(id, "CLOSED", {})
        /\ cause' = cause \cup {"refused"}
        /\ UNCHANGED subs
  /\ UNCHANGED <<channel, signer>>

SendStored(id) ==
  /\ subs[id].stage = "stored"
  /\ \E event \in subs[id].stored :
       /\ Send(id, "EVENT", event)
       /\ subs' = [subs EXCEPT ![id].stored = @ \ {event}]
  /\ UNCHANGED <<channel, signer, up, cause>>

SendEose(id) ==
  /\ subs[id].stage = "stored" /\ subs[id].stored = {}
  /\ Send(id, "EOSE", {})
  /\ subs' = [subs EXCEPT ![id].stage = "live"]
  /\ UNCHANGED <<channel, signer, up, cause>>

\* Each CLOSE is acknowledged by a CLOSED.
TakeClose ==
  /\ up # <<>> /\ Head(up).what = "CLOSE"
  /\ up' = Tail(up)
  /\ subs' = [subs EXCEPT ![Head(up).id] = NoSub]
  /\ Send(Head(up).id, "CLOSED", {})
  /\ UNCHANGED <<channel, signer, cause>>

Matches(filter, request, author) ==
  filter.request = request /\ (request = 2 => author \in filter.authors)

\* What is new goes out on the subscriptions it matches; on one whose stored
\* events are still being sent, perhaps.
Push(request, author, event) ==
  LET open == {id \in Request : /\ subs[id].stage # "none"
                                 /\ Matches(subs[id].filter, request, author)}
      live == {id \in open : subs[id].stage = "live"} IN
  \E ids \in SUBSET open :
    /\ live \subseteq ids
    /\ down' = down \o SetToSeq({Frame(id, "EVENT", event) : id \in ids})

Changed ==
  /\ changes' = changes + 1
  /\ moments' = moments \cup {<<members', profile'>>}
  /\ UNCHANGED <<signer, subs, up, cause>>

ChangeMembers ==
  /\ pc = "reading" /\ changes < MaxChanges
  /\ \E k \in Key :
       members' = IF k \in members THEN members \ {k} ELSE members \cup {k}
  /\ UNCHANGED profile
  /\ Push(1, None, members')
  /\ Changed

Rename(k, name) ==
  /\ pc = "reading" /\ changes < MaxChanges
  /\ profile[k] # name
  /\ profile' = [profile EXCEPT ![k] = name]
  /\ UNCHANGED members
  /\ Push(2, k, <<k, name>>)
  /\ Changed

Next ==
  \/ Receive \/ Break
  \/ TakeReq \/ TakeClose \/ \E id \in Request : SendStored(id) \/ SendEose(id)
  \/ ChangeMembers \/ \E k \in Key, name \in Name : Rename(k, name)

Spec == Init /\ [][Next]_vars

-----------------------------------------------------------------------------
(* The answer: members_from_events, and resolve_member on it. *)

Listed == Keys(got[1])

\* A key's name is that of the profile read last; without one it has none.
NameOf(k) ==
  LET of == {i \in DOMAIN got[2] : got[2][i][1] = k}
  IN  IF of = {} THEN None ELSE got[2][Max(of)][2]

Named(name) == {k \in Listed : NameOf(k) = name}

ResolveFirst(name) ==       \* bug: the first bearer of the name is taken
  IF Named(name) = {} THEN None ELSE CHOOSE k \in Named(name) : TRUE
\* A name that nobody has, or more than one, is an error.
Resolve(name) ==
  IF Cardinality(Named(name)) = 1 THEN CHOOSE k \in Named(name) : TRUE ELSE None

-----------------------------------------------------------------------------
(* Properties. *)

MemberAt(m, k) == k \in m[1]
HasName(m, k, name) == m[2][k] = name

\* The answer is about this channel, although profiles are asked for later than
\* members and both change meanwhile: it has everyone who was in it throughout,
\* nobody who never was, and no name that its bearer never had; and a name is
\* taken for one member only if no other one there had it all along
\* (fleet.rs:177-190, relay.py:93-112: a task must not reach the wrong agent).
AnswerFitsTheChannel ==
  pc = "listed" =>
    /\ \A k \in Key : (\A m \in moments : MemberAt(m, k)) => k \in Listed
    /\ \A k \in Listed :
         /\ \E m \in moments : MemberAt(m, k)
         /\ \E m \in moments : HasName(m, k, NameOf(k))
    /\ \A name \in Name : Resolve(name) # None =>
         \A k \in Key \ {Resolve(name)} :
           \E m \in moments : ~MemberAt(m, k) \/ ~HasName(m, k, name)

\* A listing fails only if the connection did or the relay refused one of its
\* requests: the acknowledgement of the first CLOSE, which the second request
\* reads, is not taken for a refusal ("a spurious 'relay closed subscription:'
\* error", fleet.rs:75-89).
FailsOnlyForCause == pc = "failed" => cause # {}
=============================================================================

------------------------------ MODULE MemberList -----------------------------
(***************************************************************************)
(* The list of members on the group screen (MemberAdapter of               *)
(* GroupActivity.java).  The backend keeps the members as an array: a join *)
(* or a leave (groups.py) reads it, and writes it back whole, so that two  *)
(* may overwrite each other.  A listener sees the children of an array by  *)
(* position: entries past the new end are removed, entries past the old    *)
(* end are added, and the others change.  The adapter keeps a list of its  *)
(* own, to which an added member comes once its name has been read.        *)
(***************************************************************************)
EXTENDS Integers, Sequences, SequencesExt, FiniteSets

CONSTANTS
    Members,       \* user ids
    Requests,      \* joins and leaves that the backend serves at a time
    MaxWrites      \* bound: writes of the members list

ASSUME ListAssumption == IsFiniteSet(Members) /\ MaxWrites \in Nat

VARIABLES
    children,      \* groups/<g>/members
    read,          \* read[r]: the array a request has read, <<>> when none
    writes,        \* how often it was written
    started,       \* the screen is started: the adapter is registered
    news,          \* the arrays on their way to the listener
    told,          \* the children it has told the adapter of
    list,          \* the adapter's members
    lookups,       \* the names it has asked for: [id, member]
    asked,         \* how many names it has asked for
    crashed,       \* members.remove() got a position past the end
    refused,       \* history: the read of a name was refused
    shifted        \* history: see Shifts

backend == <<children, read, writes>>
adapter == <<list, lookups, asked, crashed>>
vars == <<backend, started, news, told, adapter, refused, shifted>>

Init ==
    /\ children \in {s \in BoundedSeq(Members, Cardinality(Members)) : IsInjective(s)} \ {<<>>}
    /\ read = [r \in Requests |-> <<>>] /\ writes = 0
    /\ started = FALSE /\ news = <<>> /\ told = <<>>
    /\ list = <<>> /\ lookups = {} /\ asked = 0
    /\ crashed = FALSE /\ refused = FALSE /\ shifted = FALSE

(***************************************************************************)
(* The callbacks of the adapter.                                           *)
(***************************************************************************)
\* onChildAdded: the name of the user is asked for.
onChildAdded(u) ==
    /\ asked' = asked + 1
    /\ lookups' = lookups \union {[id |-> asked + 1, member |-> u]}
    /\ UNCHANGED <<list, crashed>>

\* Mutant: the position is counted from one.
onChildRemovedShifted(u) ==
    LET found == {i \in DOMAIN list : i > 1 /\ list[i - 1] = u}
    IN  /\ crashed' = (found = {})
        /\ list' = IF found = {} THEN list
                   ELSE RemoveAt(list, CHOOSE i \in found : \A j \in found : i <= j)
        /\ UNCHANGED <<lookups, asked>>

\* onChildRemoved: the first entry of the user goes; without one, remove() raises.
onChildRemoved(u) ==
    /\ crashed' = ~Contains(list, u)
    /\ list' = RemoveFirst(list, u)
    /\ UNCHANGED <<lookups, asked>>

\* An array that the adapter cannot follow: a position it keeps gets another member,
\* which onChildChanged ignores, or the member that goes is one whose name is still
\* asked for.
Shifts(new) ==
    \/ \E i \in DOMAIN told \intersect DOMAIN new : told[i] # new[i]
    \/ Len(told) > Len(new) /\ \E q \in lookups : q.member = told[Len(new) + 1]

\* The next callback of the array whose turn it is; at last those that do nothing.
Removed(new) ==
    /\ Len(told) > Len(new)
    /\ onChildRemoved(told[Len(new) + 1])
    /\ told' = RemoveAt(told, Len(new) + 1)
    /\ UNCHANGED news

Added(new) ==
    /\ Len(told) < Len(new)
    /\ onChildAdded(new[Len(told) + 1])
    /\ told' = Append(told, new[Len(told) + 1])
    /\ UNCHANGED news

Changed(new) ==
    /\ Len(told) = Len(new)
    /\ told' = new /\ news' = Tail(news)
    /\ UNCHANGED adapter

Callback ==
    /\ news # <<>>
    /\ Removed(Head(news)) \/ Added(Head(news)) \/ Changed(Head(news))
    /\ shifted' = (shifted \/ Shifts(Head(news)))
    /\ UNCHANGED <<backend, started, refused>>

(***************************************************************************)
(* The backend.                                                            *)
(***************************************************************************)
Read(r) ==
    /\ read[r] = <<>> /\ children # <<>>
    /\ read' = [read EXCEPT ![r] = children]
    /\ UNCHANGED <<children, writes, started, news, told, adapter, refused, shifted>>

\* The array is replaced, and sent to the listener if there is one.
Put(new) ==
    /\ writes < MaxWrites
    /\ children' = new /\ writes' = writes + 1
    /\ news' = IF started THEN Append(news, new) ELSE news
    /\ UNCHANGED <<started, told, adapter, refused, shifted>>

Join(r, u) ==
    /\ read[r] # <<>> /\ ~Contains(read[r], u)
    /\ Put(Append(read[r], u))
    /\ read' = [read EXCEPT ![r] = <<>>]

Leave(r, u) ==
    /\ Contains(read[r], u)
    /\ Put(RemoveFirst(read[r], u))
    /\ read' = [read EXCEPT ![r] = <<>>]

\* The group is removed.
Clear ==
    /\ children # <<>>
    /\ Put(<<>>)
    /\ UNCHANGED read

(***************************************************************************)
(* The screen.                                                             *)
(***************************************************************************)
\* Mutant: the adapter is made once, and keeps its list.
StartKeeping ==
    /\ ~started
    /\ started' = TRUE /\ news' = <<children>> /\ told' = <<>>
    /\ shifted' = FALSE /\ refused' = FALSE
    /\ UNCHANGED <<backend, adapter>>

\* onStart: a new adapter, which will be told of every child.
Start ==
    /\ ~started
    /\ started' = TRUE /\ news' = <<children>> /\ told' = <<>>
    /\ list' = <<>> /\ asked' = 0
    /\ shifted' = FALSE /\ refused' = FALSE
    /\ UNCHANGED <<backend, lookups, crashed>>

\* onStop: answers still on their way reach an adapter that nobody shows.
Stop ==
    /\ started
    /\ started' = FALSE /\ news' = <<>> /\ told' = <<>> /\ lookups' = {}
    /\ UNCHANGED <<backend, list, asked, crashed, refused, shifted>>

\* onDataChange of a name: the member is appended.
Answer(q) ==
    /\ list' = Append(list, q.member) /\ lookups' = lookups \ {q}
    /\ UNCHANGED <<backend, started, news, told, asked, crashed, refused, shifted>>

\* onCancelled of a name does nothing.
Refuse(q) ==
    /\ lookups' = lookups \ {q} /\ refused' = TRUE
    /\ UNCHANGED <<backend, started, news, told, list, asked, crashed, shifted>>

Next ==
    /\ ~crashed
    /\ \/ \E r \in Requests : Read(r) \/ \E u \in Members : Join(r, u) \/ Leave(r, u)
       \/ Clear \/ Start \/ Stop \/ Callback
       \/ \E q \in lookups : Answer(q) \/ Refuse(q)

Spec == Init /\ [][Next]_vars

(***************************************************************************)
(* Properties.                                                             *)
(***************************************************************************)
\* Through joins, leaves of the last member, lost updates and the removal of the
\* group, in whatever order names arrive, the screen does not crash, and shows the
\* members once it has been told of all writes and names, as long as no write shifts
\* the members it keeps and no name is refused.
ListShowsMembers ==
    (started /\ ~shifted /\ ~refused) =>
        /\ ~crashed
        /\ news = <<>> /\ lookups = {} =>
             ToSet(list) = ToSet(children) /\ Len(list) = Len(children)

\* Even after writes that shift members the list has as many entries as the group has
\* members: every event of the listener is worth one entry or one name to come.
CountMatches ==
    (started /\ ~crashed /\ ~refused /\ news = <<>>) =>
        Len(list) + Cardinality(lookups) = Len(children)

-----------------------------------------------------------------------------
(***************************************************************************)
(* The strengthening of both that every step preserves.                    *)
(***************************************************************************)
Injective == {s \in Seq(Members) : IsInjective(s)}

ListTypes ==
    /\ children \in Injective /\ read \in [Requests -> Injective]
    /\ started \in BOOLEAN /\ news \in Seq(Injective)
    /\ told \in Seq(Members) /\ list \in Seq(Members)
    /\ asked \in Nat /\ IsFiniteSet(lookups)
    /\ \A q \in lookups : q.id \in 1 .. asked /\ q.member \in Members
    /\ crashed \in BOOLEAN /\ refused \in BOOLEAN /\ shifted \in BOOLEAN
    /\ ~started => lookups = {} /\ news = <<>>

\* When the listener has told all, it has told what the array is now.
NewsEnd == started =>
    children = IF news = <<>> THEN told ELSE news[Len(news)]

\* Every child told is an entry or a name to come.
Counted == started /\ ~crashed /\ ~refused =>
    Len(list) + Cardinality(lookups) = Len(told)

\* Nobody is shown or asked for twice, and all that were told are.
Matched == started /\ ~shifted /\ ~refused =>
    /\ ~crashed
    /\ IsInjective(told) /\ IsInjective(list)
    /\ \A p, q \in lookups : p.member = q.member => p = q
    /\ \A q \in lookups : q.member \notin ToSet(list)
    /\ ToSet(told) = ToSet(list) \union {q.member : q \in lookups}

ListInv == ListTypes /\ NewsEnd /\ Counted /\ Matched

==============================================================================

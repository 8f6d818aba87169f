------------------------------- MODULE Poller -------------------------------
(***************************************************************************)
(* Central's registry poller (internal/registry/spire.go): the paginated   *)
(* poll of SPIRE's Entry API, the Store it feeds and its error counter.    *)
(*                                                                         *)
(* SPIRE Server is external.  It keeps entries by id and serves a page of  *)
(* the entries after a token; a list is not a transaction, so entries come *)
(* and go between the calls of one poll.  A server that misbehaves hands   *)
(* out page tokens of its own choosing.                                    *)
(***************************************************************************)
EXTENDS Registry

CONSTANTS
    MaxId,          \* bound: entry ids are 1 .. MaxId
    pageSize,
    maxPollPages,
    NotReady,       \* Store.cur = nil
    NoEntry,        \* no entry under this id
    MaxChanges,     \* bound: registrations and deletions in a behaviour
    MaxErrors       \* bound: consecutive failed polls

Ids == 1 .. MaxId

\* A token names the last id of its page; one may lie past every entry.
Tokens == 1 .. MaxId + 1

ASSUME PollerConstants ==
    /\ MaxId \in Nat /\ MaxChanges \in Nat /\ MaxErrors \in Nat
    /\ pageSize \in Nat \ {0} /\ maxPollPages \in Nat \ {0}
    /\ NoEntry \notin Entries
    /\ NotReady \notin [Names -> Zones \cup {NoZone}]

VARIABLES
    server,      \* SPIRE's entries
    changes,     \* how often they changed
    pc,          \* "idle" between polls, "paging" inside PollOnce
    pages, token, seenTokens, all,   \* PollOnce's locals; token 0 is ""
    store,       \* Store.cur
    stats,       \* what OnSnapshot was last given
    pollErrors,  \* and, through OnPollErrors, registry_poll_errors
    touched,     \* for the properties: the registrations some moment of the
                 \* running poll saw on the server ...
    lasting,     \* ... and those every moment of it saw
    basis        \* both, of the poll that built the store's snapshot

localVars == <<pages, token, seenTokens, all>>
vars == <<server, changes, pc, localVars, store, stats, pollErrors, touched, lasting, basis>>

Registered(s) == {id \in Ids : s[id] # NoEntry}
Registrations(s) == {<<id, s[id]>> : id \in Registered(s)}

Init ==
    /\ server \in [Ids -> Entries \cup {NoEntry}]
    /\ changes = 0
    /\ pc = "idle"
    /\ pages = 0 /\ token = 0 /\ seenTokens = {} /\ all = <<>>
    /\ store = NotReady
    /\ stats = [Names |-> 0, Conflicts |-> 0, Skipped |-> 0]
    /\ pollErrors = 0
    /\ touched = {} /\ lasting = {}
    /\ basis = [touched |-> {}, lasting |-> {}]

(***************************************************************************)
(* SPIRE Server.                                                           *)
(***************************************************************************)
\* An entry is registered, deleted or updated in place.
Change(id) ==
    /\ changes < MaxChanges
    /\ \E e \in (Entries \cup {NoEntry}) \ {server[id]} :
          server' = [server EXCEPT ![id] = e]
    /\ changes' = changes + 1
    /\ IF pc = "paging"
       THEN /\ touched' = touched \cup Registrations(server')
            /\ lasting' = lasting \cap Registrations(server')
       ELSE UNCHANGED <<touched, lasting>>
    /\ UNCHANGED <<pc, localVars, store, stats, pollErrors, basis>>

After(t) == {id \in Registered(server) : id > t}

\* The ids of the page after t: the first pageSize of them.
Page(t) == {id \in After(t) : Cardinality({other \in After(t) : other < id}) < pageSize}

NextToken(t) == IF Page(t) = After(t) THEN 0 ELSE Max(Page(t))

(***************************************************************************)
(* PollOnce and the loop of Run around it.                                 *)
(***************************************************************************)
Begin ==
    /\ pc = "idle"
    /\ pollErrors < MaxErrors
    /\ pc' = "paging"
    /\ touched' = Registrations(server)
    /\ lasting' = Registrations(server)
    /\ UNCHANGED <<server, changes, localVars, store, stats, pollErrors, basis>>

\* PollOnce returns and its locals go out of scope.
Return ==
    /\ pc' = "idle"
    /\ pages' = 0 /\ token' = 0 /\ seenTokens' = {} /\ all' = <<>>
    /\ touched' = {} /\ lasting' = {}
    /\ UNCHANGED <<server, changes>>

TokenRepeats == token # 0 /\ token \in seenTokens

MustAbortLate == pages > maxPollPages \/ TokenRepeats

MustAbort == pages >= maxPollPages \/ TokenRepeats

FailClears ==
    /\ Return
    /\ store' = NotReady
    /\ pollErrors' = pollErrors + 1
    /\ UNCHANGED <<stats, basis>>

\* PollOnce returns an error: the store stays as it is.
Fail ==
    /\ Return
    /\ pollErrors' = pollErrors + 1
    /\ UNCHANGED <<store, stats, basis>>

AbortRestarts ==
    /\ pc = "paging"
    /\ MustAbort
    /\ pages' = 0 /\ token' = 0 /\ seenTokens' = {} /\ all' = <<>>
    /\ UNCHANGED <<server, changes, pc, store, stats, pollErrors, touched, lasting, basis>>

Abort ==
    /\ pc = "paging"
    /\ MustAbort
    /\ Fail

CallFails ==
    /\ pc = "paging"
    /\ ~MustAbort
    /\ Fail

\* The orders in which a set may be listed.
Orders(S) == Bijection(1 .. Cardinality(S), S)

\* The lists it may return for the page after t: the entries that carry a
\* SPIFFE ID, in whichever order the reply has them.
ListEntries(t) ==
    {[k \in DOMAIN ids |-> server[ids[k]]] :
        ids \in Orders({id \in Page(t) : server[id].path # NoId})}

\* The body of the loop after the two checks, with next as the reply's token;
\* kept are the registrations the snapshot must account for.
TakePage(next, kept) ==
    /\ pc = "paging"
    /\ ~MustAbort
    /\ \E sofar \in {all \o page : page \in ListEntries(token)} :
          \/ /\ next = 0
             /\ Return
             /\ \E acc \in {Declarations(sofar)} :
                   /\ store' = BuildSnapshot(acc).zoneOf
                   /\ stats' = [f \in DOMAIN stats |-> BuildSnapshot(acc)[f]]
             /\ pollErrors' = 0
             /\ basis' = [touched |-> touched, lasting |-> kept]
          \/ /\ next # 0
             /\ token' = next
             /\ pages' = pages + 1
             /\ seenTokens' = seenTokens \cup ({token} \ {0})
             /\ all' = sofar
             /\ lasting' = kept
             /\ UNCHANGED <<server, changes, pc, store, stats, pollErrors, touched, basis>>

Fetch == TakePage(NextToken(token), lasting)

\* The server sends a token of its own choosing; what the poll then misses is
\* not its fault.
FetchWrongToken == \E next \in Tokens : TakePage(next, {})

PollStep == Fetch \/ FetchWrongToken \/ CallFails \/ Abort

Next ==
    \/ \E id \in Ids : Change(id)
    \/ Begin
    \/ PollStep

Spec == Init /\ [][Next]_vars

\* Fairness: a call to SPIRE returns, with a page or an error.
FairSpec == Spec /\ WF_vars(PollStep)

-----------------------------------------------------------------------------

\* Every variable holds a value of its type.
TypeOK ==
    /\ server \in [Ids -> Entries \cup {NoEntry}]
    /\ changes \in 0 .. MaxChanges
    /\ pc \in {"idle", "paging"}
    /\ pages \in 0 .. maxPollPages
    /\ token \in {0} \cup Tokens
    /\ seenTokens \subseteq Tokens
    /\ all \in Seq(Entries)
    /\ store \in {NotReady} \cup [Names -> Zones \cup {NoZone}]
    /\ stats \in [{"Names", "Conflicts", "Skipped"} -> Nat]
    /\ pollErrors \in 0 .. MaxErrors

EntriesIn(R) == {r[2] : r \in R}

\* PollOnce and BuildSnapshot against a registry that changes under the poll:
\* a name resolves to a zone only if it was declared there during the poll and
\* nowhere else throughout it; a name whose declarations did not change during
\* the poll resolves exactly when they agree.
SnapshotIsBracketed ==
    store # NotReady => \A n \in Names :
        LET some   == DeclaredZones(EntriesIn(basis.touched), n)
            always == DeclaredZones(EntriesIn(basis.lasting), n)
        IN  /\ store[n] # NoZone => store[n] \in some /\ always \subseteq {store[n]}
            /\ some = always /\ Cardinality(some) = 1 => store[n] \in some

\* The published Stats of a poll the registry did not change under: every name
\* declared in exactly one zone, every conflict and every skipped entry is
\* counted once, however the entries are spread over pages and spelled.
StatsAreTrue ==
    store # NotReady /\ basis.touched = basis.lasting =>
        LET Declared(n) == DeclaredZones(EntriesIn(basis.lasting), n)
        IN  /\ stats.Names = Cardinality({n \in Names : Cardinality(Declared(n)) = 1})
            /\ stats.Conflicts = Cardinality({n \in Names : Cardinality(Declared(n)) > 1})
            /\ stats.Skipped = Cardinality({r \in basis.lasting :
                                  r[2].path # NoId /\ ZoneOf(r[2]) = NoZone})

\* The page limit and the repeated-token check: a poll ends even when the
\* server never stops handing out tokens.
PollEnds == pc = "paging" ~> pc = "idle"

\* A failed poll keeps the previous snapshot, and a Store that was ready never
\* becomes unready: once resolvable, names are not lost to SPIRE outages.
FailureKeepsSnapshot ==
    [][pollErrors' > pollErrors \/ store' = NotReady => store' = store]_vars
=============================================================================

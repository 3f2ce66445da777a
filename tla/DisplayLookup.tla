---------------------------- MODULE DisplayLookup ----------------------------
(***************************************************************************)
(* Where the OSC messages for a rotary display go.  The display says hello *)
(* every few seconds with its host name (_on_osc_message() of              *)
(* modules/interface/rotary_display/module.py); the name is resolved in a  *)
(* thread through a cache of half a minute (rotary_mdns.py), and the       *)
(* address is noted.  Syncs and beats go to the address that is noted.     *)
(*                                                                         *)
(* One display under one ".local" name; a datagram to an address that      *)
(* nobody has is lost quietly.  The syncs are those after a hello; what    *)
(* start() of the module browses for is left out.                          *)
(***************************************************************************)
CONSTANTS
  Places,   \* addresses that the display can have
  Nowhere,
  Lookups   \* tasks that handle a hello

ASSUME LookupAssumption == Nowhere \notin Places

VARIABLES
  target,   \* whether the display has registered, _feedback_host_ip, the cached
            \* address, and where the last sync went
  lookup,   \* of each task: where it awaits, and the address that it found
  place     \* the display's address, and whether its name is answered for

lookupVars == <<target, lookup, place>>

Somewhere == Places \cup {Nowhere}
NoLookup == [pc |-> "idle", found |-> Nowhere]

LookupInit ==
  \E a \in Places :
    /\ target = [known |-> FALSE, ip |-> Nowhere, cache |-> Nowhere, synced |-> Nowhere]
    /\ lookup = [t \in Lookups |-> NoLookup]
    /\ place = [at |-> a, answers |-> TRUE]

LookupTypeOK ==
  /\ target \in [known : BOOLEAN, ip : Somewhere, cache : Somewhere, synced : Somewhere]
  /\ lookup \in [Lookups -> [pc : {"idle", "resolving", "storing", "priming", "syncing"},
                             found : Somewhere]]
  /\ place \in [at : Places, answers : BOOLEAN]
  /\ target.ip # Nowhere \/ target.synced # Nowhere => target.known
  /\ \A t \in Lookups : lookup[t].pc = "storing" => lookup[t].found # Nowhere

\* slip: an address that is in the cache is never looked up again
Kept(cache) == cache

\* _get_cached_ip(): an entry goes with its time
Dropped(cache) == Nowhere

-----------------------------------------------------------------------------
\* what resolve_mdns_ipv4() would find now
Found == IF target.cache # Nowhere THEN target.cache ELSE IF place.answers THEN place.at ELSE Nowhere

\* _on_osc_message(): the host is registered; a hello that would find what is noted, and
\* sync to where the last sync went, is left out
Hello(t) ==
  /\ lookup[t].pc = "idle" /\ (Found # target.ip \/ target.ip # target.synced)
  /\ target' = [target EXCEPT !.known = TRUE]
  /\ lookup' = [lookup EXCEPT ![t].pc = "resolving"]
  /\ UNCHANGED place

\* resolve_mdns_ipv4() in its thread: from the cache, from the answer, or not at all
ResolveName(t) ==
  /\ lookup[t].pc = "resolving"
  /\ lookup' = [lookup EXCEPT ![t] =
       [pc |-> IF target.cache = Nowhere /\ place.answers THEN "storing" ELSE "priming", found |-> Found]]
  /\ UNCHANGED <<target, place>>

\* _store_cached_ip(): another thread may have stored another answer
AnswerCached(t) ==
  /\ lookup[t].pc = "storing"
  /\ target' = [target EXCEPT !.cache = lookup[t].found]
  /\ lookup' = [lookup EXCEPT ![t].pc = "priming"]
  /\ UNCHANGED place

\* _prime_feedback_host_ip() goes on, and the sync is handed to a thread
Prime(t) ==
  /\ lookup[t].pc = "priming"
  /\ target' = [target EXCEPT !.ip = IF lookup[t].found = Nowhere THEN @ ELSE lookup[t].found]
  /\ lookup' = [lookup EXCEPT ![t] = [pc |-> "syncing", found |-> Nowhere]]
  /\ UNCHANGED place

\* _write_sync_osc_sync(): to the address that is noted, or nowhere
SyncSent(t) ==
  /\ lookup[t].pc = "syncing"
  /\ target' = [target EXCEPT !.synced = IF target.ip = Nowhere THEN @ ELSE target.ip]
  /\ lookup' = [lookup EXCEPT ![t] = NoLookup]
  /\ UNCHANGED place

\* ... after an OSError the sync is given up
SendFails(t) ==
  /\ lookup[t].pc = "syncing" /\ target.ip # Nowhere
  /\ lookup' = [lookup EXCEPT ![t] = NoLookup]
  /\ UNCHANGED <<target, place>>

CacheExpires ==
  /\ target.cache # Nowhere
  /\ target' = [target EXCEPT !.cache = Dropped(@)]
  /\ UNCHANGED <<lookup, place>>

DisplayMoves(a) == a # place.at /\ place' = [place EXCEPT !.at = a] /\ UNCHANGED <<target, lookup>>
NameGoes == place' = [place EXCEPT !.answers = ~@] /\ UNCHANGED <<target, lookup>>

LookupRuns ==
  \/ \E t \in Lookups : Hello(t) \/ ResolveName(t) \/ AnswerCached(t) \/ Prime(t) \/ SyncSent(t)
  \/ (target.cache # place.at /\ CacheExpires)

LookupWorld ==
  \/ \E a \in Places : DisplayMoves(a)
  \/ \E t \in Lookups : SendFails(t)
  \/ NameGoes \/ CacheExpires

LookupSpec == LookupInit /\ [][LookupRuns \/ LookupWorld]_lookupVars /\ WF_lookupVars(LookupRuns)

-----------------------------------------------------------------------------
\* Syncs come to be sent to the address of a display that moved and goes on saying hello,
\* and beats to be sent there, however its lookups overlap, as long as its name is
\* answered for (_prime_feedback_host_ip(), _resolve_beat_udp_target(), _get_cached_ip()).
DisplayIsFound ==
  <>[](place.answers => target.ip = place.at /\ target.synced = place.at)
=============================================================================

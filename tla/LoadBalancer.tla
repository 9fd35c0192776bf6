----------------------------- MODULE LoadBalancer -----------------------------
(***************************************************************************)
(* The four selection policies of rpc::LoadBalancer                        *)
(* (src/include/async_toolkit/rpc/load_balancer.hpp), one balancer object  *)
(* of each class.  Every call is atomic: RoundRobin's only shared access   *)
(* is one fetch_add, LeastConn and ConsistentHash hold mutex_ for the      *)
(* whole call, Random is used by one thread (mt19937 is not shared        *)
(* safely).  A call is therefore one step, and result is what it returns.  *)
(*                                                                         *)
(* A server name is a model value and a list is a sequence of them.  The   *)
(* string hash of the virtual node "server#i" is VHash[server][i+1]; the   *)
(* time hash of a ConsistentHash call is any of TimeHashes; the uniform    *)
(* double of a Random call is k / RandSteps.                               *)
(***************************************************************************)
EXTENDS Naturals, Sequences, SequencesExt

CONSTANTS
  Servers,        \* server names
  Lists,          \* the server lists callers pass (<<>> included)
  CountVals,      \* active_connections values passed to update_server_stats
  Width,          \* bits of size_t kept: current_index_ is mod 2^Width
  RandSteps,      \* resolution of the uniform double in [0, 1)
  CanonicalOne,   \* whether the build's uniform_real_distribution can return 1.0
  VirtualNodes,   \* ConsistentHashLoadBalancer's virtual_nodes
  VHash,          \* VHash[s][i+1]: std::hash of the string s + "#" + i
  TimeHashes      \* std::hash of the clock values a call may read

VARIABLES
  rrIndex,         \* RoundRobinLoadBalancer::current_index_
  counts,          \* LeastConnLoadBalancer::connection_counts_ (absent = 0)
  currentServers,  \* ConsistentHashLoadBalancer::current_servers_
  ring,            \* ConsistentHashLoadBalancer::hash_ring_: hash -> server
  result           \* the value the last select_server returned

lbVars == <<rrIndex, counts, currentServers, ring, result>>

\* The empty string of an empty list, and what dereferencing an index or
\* iterator past the end yields: no server.
None == ""
Garbage == "past-the-end"

TypeOK ==
  /\ rrIndex \in 0 .. 2^Width - 1
  /\ counts \in [Servers -> CountVals \cup {0}]
  /\ currentServers \in Lists \cup {<<>>}
  /\ DOMAIN ring \subseteq UNION {Range(VHash[s]) : s \in Servers}
  /\ \A k \in DOMAIN ring : ring[k] \in Servers
  /\ result \in Servers \cup {None, Garbage}

Init ==
  /\ rrIndex = 0 /\ counts = [s \in Servers |-> 0]
  /\ currentServers = <<>> /\ ring = <<>> /\ result = None

-----------------------------------------------------------------------------
\* RandomLoadBalancer::select_server: index = dist_(gen_) * size.
RandomSelect(l) ==
  /\ \E k \in 0 .. (IF CanonicalOne THEN RandSteps ELSE RandSteps - 1) :
       LET index == (k * Len(l)) \div RandSteps
       IN  result' = CASE l = <<>>       -> None
                       [] index < Len(l) -> l[index + 1]
                       [] OTHER          -> Garbage
  /\ UNCHANGED <<rrIndex, counts, currentServers, ring>>

\* RoundRobinLoadBalancer::select_server: current_index_++ % size.
RRSelect(l) ==
  /\ IF l = <<>>
       THEN result' = None /\ UNCHANGED rrIndex
       ELSE /\ result' = l[(rrIndex % Len(l)) + 1]
            /\ rrIndex' = (rrIndex + 1) % 2^Width
  /\ UNCHANGED <<counts, currentServers, ring>>

-----------------------------------------------------------------------------
\* get_connection_count(server)
Count(s) == counts[s]

\* Mutant: a tie moves the selection on to the later server.
LeastConnLe(l) ==
  FoldLeft(LAMBDA sel, s : IF Count(s) <= Count(sel) THEN s ELSE sel, l[1], Tail(l))

\* The loop over servers[1..]: a server replaces the selection only with
\* strictly fewer connections.
LeastConn(l) ==
  FoldLeft(LAMBDA sel, s : IF Count(s) < Count(sel) THEN s ELSE sel, l[1], Tail(l))

\* LeastConnLoadBalancer::select_server, under mutex_.
LCSelect(l) ==
  /\ result' = IF l = <<>> THEN None ELSE LeastConn(l)
  /\ UNCHANGED <<rrIndex, counts, currentServers, ring>>

\* LeastConnLoadBalancer::update_server_stats, under mutex_.
LCUpdate(s, n) ==
  /\ counts' = [counts EXCEPT ![s] = n]
  /\ UNCHANGED <<rrIndex, currentServers, ring, result>>

-----------------------------------------------------------------------------
\* rebuild_hash_ring: every virtual node of every server in list order;
\* a later virtual node with the same hash overwrites an earlier one.
RingOf(l) ==
  LET keys == {VHash[l[i]][v] : i \in 1 .. Len(l), v \in 1 .. VirtualNodes}
      owner(k) == LET is == {i \in 1 .. Len(l) :
                               \E v \in 1 .. VirtualNodes : VHash[l[i]][v] = k}
                  IN  l[CHOOSE i \in is : \A j \in is : j <= i]
  IN  [k \in keys |-> owner(k)]

\* Mutant: only a change of the list's size triggers a rebuild.
NeedRebuildSizeOnly(l) == Len(l) # Len(currentServers)

\* rebuild_if_needed's test: a different size or a different server at
\* some position.
NeedRebuild(l) == l # currentServers

\* lower_bound(hash), wrapping to begin(); on an empty ring begin() is end()
\* and it->second reads past the end.
LowerBound(r, h) ==
  LET above == {k \in DOMAIN r : k >= h}
  IN  CASE above # {}      -> r[Min(above)]
        [] DOMAIN r # {}   -> r[Min(DOMAIN r)]
        [] OTHER           -> Garbage

\* ConsistentHashLoadBalancer::select_server, under mutex_.
CHSelect(l, h) ==
  /\ IF l = <<>>
       THEN result' = None /\ UNCHANGED <<currentServers, ring>>
       ELSE LET r == IF NeedRebuild(l) THEN RingOf(l) ELSE ring
            IN  /\ ring' = r
                /\ currentServers' = IF NeedRebuild(l) THEN l ELSE currentServers
                /\ result' = LowerBound(r, h)
  /\ UNCHANGED <<rrIndex, counts>>

-----------------------------------------------------------------------------
LBNext ==
  \E l \in Lists :
    \/ RandomSelect(l) \/ RRSelect(l) \/ LCSelect(l)
    \/ \E h \in TimeHashes : CHSelect(l, h)
  \/ \E s \in Servers, n \in CountVals : LCUpdate(s, n)

Spec == Init /\ [][LBNext]_lbVars

-----------------------------------------------------------------------------
(* Properties                                                              *)

\* The least-connections loop picks what its comment promises: among the
\* servers of the list, one with the fewest connections, and of those the
\* first in the list, for every connection_counts_ that update_server_stats
\* calls can build.
LeastConnPicksFirstLeast ==
  \A l \in Lists \ {<<>>} :
    LeastConn(l) = l[SelectInSeq(l, LAMBDA s : \A j \in 1 .. Len(l) : Count(s) <= Count(l[j]))]

\* Random returns a server of the list it was called with.  Where the
\* build's uniform_real_distribution can return 1.0 (CanonicalOne), the
\* index is the list's size and it does not hold.
RandomServesList ==
  [][\A l \in Lists \ {<<>>} : RandomSelect(l) => result' \in Range(l)]_lbVars

\* ConsistentHash returns a server of the list it was called with, although
\* hash_ring_ is kept from an earlier call whenever rebuild_if_needed finds
\* the list unchanged, and virtual nodes of different servers collide.
RingServesList ==
  [][\A l \in Lists \ {<<>>}, h \in TimeHashes :
       CHSelect(l, h) => result' \in Range(l)]_lbVars
=============================================================================

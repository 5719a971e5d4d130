------------------------------ MODULE Clusters ------------------------------
(***************************************************************************)
(* The user's ssh keys and saved boxes (clusters), and the remote runs     *)
(* that were started on them.  A run's supervisor is a process of its own: *)
(* it was given the path of the private key, and needs the file to its     *)
(* end.                                                                    *)
(***************************************************************************)
EXTENDS FiniteSets

CONSTANTS Keys,    \* key ids; each is fresh
          Ids,     \* cluster ids; one that no run was started on is fresh
          Runs,    \* remote runs
          Threads, \* requests served at a time
          Faults   \* {"overlap"}: a key is deleted while another request uses it

NoKey == "none"

ASSUME ClustersAssumption ==
  /\ NoKey \notin Keys \cup Ids
  /\ IsFiniteSet(Ids)
  /\ Faults \subseteq {"overlap"}

VARIABLES
  node,    \* keys in the graph
  file,    \* keys whose private half is on disk
  fresh,   \* keys not made yet
  cluster, \* the key of each saved cluster, or NoKey
  run,     \* each run: the cluster and the key it was started with, live or not
  req      \* the request of each thread, past its checks

vars == <<node, file, fresh, cluster, run, req>>

Idle == [op |-> "idle", key |-> NoKey, id |-> NoKey]
NotStarted == [id |-> NoKey, key |-> NoKey, live |-> FALSE]

TypeOK ==
  /\ node \subseteq Keys /\ file \subseteq Keys
  /\ fresh \subseteq Keys \ (node \cup file)
  /\ cluster \in [Ids -> Keys \cup {NoKey}]
  /\ run \in [Runs -> [id : Ids, key : Keys, live : BOOLEAN] \cup {NotStarted}]
  /\ req \in [Threads -> [op : {"idle", "generate", "delete", "add"},
                          key : Keys \cup {NoKey}, id : Ids \cup {NoKey}]]

Init ==
  /\ node = {} /\ file = {} /\ fresh = Keys
  /\ cluster = [i \in Ids |-> NoKey]
  /\ run = [r \in Runs |-> NotStarted]
  /\ req = [t \in Threads |-> Idle]

Busy(k) == \E t \in Threads : req[t].key = k

\* Requests about a key, begun and not answered.
Begin(t, op, k, i) == req[t] = Idle /\ req' = [req EXCEPT ![t] = [op |-> op, key |-> k, id |-> i]]
Answer(t) == req' = [req EXCEPT ![t] = Idle]

-----------------------------------------------------------------------------
\* generate_ssh_key: ssh-keygen writes both files; then the node.
Keygen(t, k) ==
  /\ k \in fresh /\ Begin(t, "generate", k, NoKey)
  /\ file' = file \cup {k} /\ fresh' = fresh \ {k}
  /\ UNCHANGED <<node, cluster, run>>

SaveKey(t) ==
  /\ req[t].op = "generate" /\ Answer(t)
  /\ node' = node \cup {req[t].key}
  /\ UNCHANGED <<file, fresh, cluster, run>>

\* Mutant of KeyUse: it counts the live runs.
KeyUseOfRuns(k) == Cardinality({r \in Runs : run[r].key = k /\ run[r].live})

\* _key_use_count
KeyUse(k) == Cardinality({i \in Ids : cluster[i] = k})

\* delete_ssh_key: refused while a cluster uses it.  The files go, then the node.
Unlink(t, k) ==
  /\ k \in node /\ KeyUse(k) = 0
  /\ "overlap" \in Faults \/ ~Busy(k)
  /\ Begin(t, "delete", k, NoKey)
  /\ file' = file \ {k}
  /\ UNCHANGED <<node, fresh, cluster, run>>

DropKey(t) ==
  /\ req[t].op = "delete" /\ Answer(t)
  /\ node' = node \ {req[t].key}
  /\ UNCHANGED <<file, fresh, cluster, run>>

\* add_cluster: the key is looked up, the box is probed for seconds, and
\* whatever the probe says the cluster is saved.
Probe(t, i, k) ==
  /\ k \in node /\ cluster[i] = NoKey
  /\ (\A u \in Threads : req[u].id # i) /\ (\A r \in Runs : run[r].id # i)
  /\ "overlap" \in Faults \/ ~Busy(k)
  /\ Begin(t, "add", k, i)
  /\ UNCHANGED <<node, file, fresh, cluster, run>>

SaveCluster(t) ==
  /\ req[t].op = "add" /\ Answer(t)
  /\ cluster' = [cluster EXCEPT ![req[t].id] = req[t].key]
  /\ UNCHANGED <<node, file, fresh, run>>

RemoveCluster(i) ==
  /\ cluster[i] # NoKey
  /\ cluster' = [cluster EXCEPT ![i] = NoKey]
  /\ UNCHANGED <<node, file, fresh, run, req>>

\* Mutant of Override: the key file is not looked for.
OverrideUnchecked(i) == cluster[i] \in node

\* cluster_ssh_override: an ssh command, or none.
Override(i) == cluster[i] \in node \cap file

\* start_remote_run, and the end of its supervisor (CloudRun).
StartRun(r, i) ==
  /\ ~run[r].live /\ Override(i)
  /\ run' = [run EXCEPT ![r] = [id |-> i, key |-> cluster[i], live |-> TRUE]]
  /\ UNCHANGED <<node, file, fresh, cluster, req>>

EndRun(r) ==
  /\ run[r].live
  /\ run' = [run EXCEPT ![r].live = FALSE]
  /\ UNCHANGED <<node, file, fresh, cluster, req>>

\* The server crashes; supervisors do not.
Crash ==
  /\ req' = [t \in Threads |-> Idle]
  /\ UNCHANGED <<node, file, fresh, cluster, run>>

Next ==
  \/ \E t \in Threads, k \in Keys : Keygen(t, k) \/ Unlink(t, k)
  \/ \E t \in Threads, i \in Ids, k \in Keys : Probe(t, i, k)
  \/ \E t \in Threads : SaveKey(t) \/ DropKey(t) \/ SaveCluster(t)
  \/ \E i \in Ids : RemoveCluster(i)
  \/ \E r \in Runs : EndRun(r) \/ (\E i \in Ids : StartRun(r, i))
  \/ Crash

Spec == Init /\ [][Next]_vars

-----------------------------------------------------------------------------
(* Properties *)

\* "deleting would strand them": no saved cluster's key is deleted, though the
\* server crash between the files and the node.
NotStranded == \A i \in Ids : cluster[i] = NoKey \/ cluster[i] \in node

\* The supervisor of a live run finds its key, as long as the run's cluster is
\* saved; a server that crashes in a deletion leaves a key no run can start with.
RunKeepsItsKey ==
  \A r \in Runs : run[r].live /\ cluster[run[r].id] = run[r].key => run[r].key \in file

\* The same for a run whose cluster was removed.
EveryRunKeepsItsKey == \A r \in Runs : run[r].live => run[r].key \in file
=============================================================================

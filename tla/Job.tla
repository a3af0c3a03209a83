--------------------------------- MODULE Job ---------------------------------
(***************************************************************************)
(* Job descriptors (src/src/Job.c) and the dispatch contract of spec.md   *)
(* 4.4 and 5.  A producer wraps a payload in a job: a client-process      *)
(* record or a custom-callback closure, both CD_malloc'd and owned by the *)
(* job (CD_CreateJob), or an object it keeps owning itself and lends to   *)
(* the job (CD_CreateExternalJob).  The worker pool, which is not in this *)
(* tree, runs each submitted job once and then destroys it with           *)
(* CD_DestroyJob or CD_DestroyJobKeepData; whoever ends up owning a       *)
(* payload frees it when done with it.  Workers run in parallel, so the   *)
(* steps of different jobs interleave.                                    *)
(***************************************************************************)
EXTENDS Integers, FiniteSets

CONSTANTS
  Jobs,          \* the jobs submitted (one producer call each)
  KeepExternal   \* whether the pool may use CD_DestroyJobKeepData on an external job

ASSUME KeepExternal \in BOOLEAN

VARIABLES
  state,       \* job -> "none", "queued", "running", "done"
  job,         \* job -> its CDJob: [type, data, external]
  live,        \* heap objects allocated and not yet freed
  owners,      \* payload -> the parties that will free it
  doubleFree   \* a free of an object that is not live has happened

vars == <<state, job, live, owners, doubleFree>>

\* Heap objects: a job's descriptor and its payload.
Descriptor(j) == <<j, "job">>
Payload(j) == <<j, "data">>

\* CD_free, noting a free of memory that is not live.
FreeObj(o) ==
  /\ live' = live \ {o}
  /\ doubleFree' = (doubleFree \/ o \notin live)

\* CD_CreateJob(type, data): the descriptor is owned, external = false.
CDCreateJob(type, data) ==
  [type |-> type, data |-> data, external |-> FALSE]

\* CD_CreateExternalJob(type, data): external = true.
CDCreateExternalJob(type, data) ==
  [type |-> type, data |-> data, external |-> TRUE]

\* CD_CreateClientProcessJob(client, packet) and CD_CreateCustomJob(callback,
\* data) each CD_malloc the record that becomes an owned job's payload.
PayloadShapes == {"clientprocess", "custom"}

\* A producer submits job j: an owned job over a fresh record, or an
\* external job over an object the producer keeps owning.
Submit(j) ==
  /\ state[j] = "none"
  /\ \/ \E shape \in PayloadShapes :
          /\ job' = [job EXCEPT ![j] = CDCreateJob(shape, Payload(j))]
          /\ owners' = [owners EXCEPT ![Payload(j)] = {"job"}]
     \/ /\ job' = [job EXCEPT ![j] = CDCreateExternalJob("custom", Payload(j))]
        /\ owners' = [owners EXCEPT ![Payload(j)] = {"producer"}]
  /\ live' = live \cup {Descriptor(j), Payload(j)}
  /\ state' = [state EXCEPT ![j] = "queued"]
  /\ UNCHANGED doubleFree

\* A worker takes a queued job and executes it; its callback reads the
\* payload.
Execute(j) ==
  /\ state[j] = "queued"
  /\ state' = [state EXCEPT ![j] = "running"]
  /\ UNCHANGED <<job, live, owners, doubleFree>>

\* Mutation of CDDestroyJob: the external flag is not tested.
CDDestroyJobIgnoresExternal(j) ==
  /\ live' = (live \ {Descriptor(j)}) \ {job[j].data}
  /\ doubleFree' = (doubleFree \/ Descriptor(j) \notin live \/ job[j].data \notin live)
  /\ owners' = [owners EXCEPT ![job[j].data] = @ \ {"job"}]

\* Mutation of CDDestroyJob: the descriptor itself is not freed.
CDDestroyJobKeepsSelf(j) ==
  IF ~job[j].external
  THEN /\ FreeObj(job[j].data)
       /\ owners' = [owners EXCEPT ![job[j].data] = @ \ {"job"}]
  ELSE UNCHANGED <<live, doubleFree, owners>>

\* CD_DestroyJob(self): frees the payload unless the job is external, then
\* the descriptor.
CDDestroyJob(j) ==
  IF ~job[j].external
  THEN /\ live' = (live \ {job[j].data}) \ {Descriptor(j)}
       /\ doubleFree' = (doubleFree \/ job[j].data \notin live \/ Descriptor(j) \notin live)
       /\ owners' = [owners EXCEPT ![job[j].data] = @ \ {"job"}]
  ELSE /\ FreeObj(Descriptor(j))
       /\ UNCHANGED owners

\* Mutation of CDDestroyJobKeepData: the payload is freed with the
\* descriptor.
CDDestroyJobKeepDataFrees(j) ==
  /\ live' = (live \ {Descriptor(j)}) \ {job[j].data}
  /\ doubleFree' = (doubleFree \/ Descriptor(j) \notin live)
  /\ owners' = [owners EXCEPT ![job[j].data] = (@ \ {"job"}) \cup {"worker"}]

\* CD_DestroyJobKeepData(self): frees the descriptor and returns the
\* payload, whatever the external flag says; the worker now owns it.
CDDestroyJobKeepData(j) ==
  /\ FreeObj(Descriptor(j))
  /\ owners' = [owners EXCEPT ![job[j].data] = (@ \ {"job"}) \cup {"worker"}]

\* The worker destroys the job it has executed, with either variant.
Destroy(j) ==
  /\ state[j] = "running"
  /\ CDDestroyJob(j)
  /\ state' = [state EXCEPT ![j] = "done"]
  /\ UNCHANGED job

DestroyKeepData(j) ==
  /\ state[j] = "running"
  /\ ~job[j].external \/ KeepExternal
  /\ CDDestroyJobKeepData(j)
  /\ state' = [state EXCEPT ![j] = "done"]
  /\ UNCHANGED job

\* A party that owns a payload frees it once the job is done: the producer
\* of an external job, or the worker that kept the data.
Release(j, who) ==
  /\ state[j] = "done"
  /\ who \in owners[job[j].data]
  /\ FreeObj(job[j].data)
  /\ owners' = [owners EXCEPT ![job[j].data] = @ \ {who}]
  /\ UNCHANGED <<state, job>>

-----------------------------------------------------------------------------

Init ==
  /\ state = [j \in Jobs |-> "none"]
  /\ job = [j \in Jobs |-> [type |-> "none", data |-> <<j, "none">>, external |-> FALSE]]
  /\ live = {}
  /\ owners = [o \in {Payload(j) : j \in Jobs} |-> {}]
  /\ doubleFree = FALSE

Next ==
  \E j \in Jobs :
    \/ Submit(j)
    \/ Execute(j)
    \/ Destroy(j)
    \/ DestroyKeepData(j)
    \/ \E who \in {"producer", "worker"} : Release(j, who)

\* Once submitted, a job runs to completion and is destroyed (spec.md 5:
\* no cancellation); an owner that holds a payload disposes of it.
Spec ==
  /\ Init /\ [][Next]_vars
  /\ \A j \in Jobs :
       /\ WF_vars(Execute(j))
       /\ WF_vars(Destroy(j) \/ DestroyKeepData(j))
       /\ \A who \in {"producer", "worker"} : WF_vars(Release(j, who))

-----------------------------------------------------------------------------

\* No object is freed twice: CD_DestroyJob leaves an external job's payload
\* to its producer, and CD_DestroyJobKeepData hands the payload on without
\* freeing it.
NoDoubleFree == ~doubleFree

\* While anyone is still to use a payload (the job's callback, the worker
\* that kept it, or the producer that lent it), it has not been freed.
PayloadLiveWhileOwned ==
  \A j \in Jobs :
    state[j] # "none" /\ owners[job[j].data] # {} => job[j].data \in live

\* Every submitted job is eventually executed and destroyed, and its
\* descriptor and payload are eventually freed by whoever owns them.
AllReleased ==
  \A j \in Jobs :
    state[j] = "queued" ~> (state[j] = "done" /\ {Descriptor(j), Payload(j)} \cap live = {})

=============================================================================

------------------------- MODULE MCArchaeologyJobs -------------------------
(* Instances of ArchaeologyJobs for TLC. *)
EXTENDS ArchaeologyJobs, TLC

\* Repositories, owners, sources, configurations and accepted contents are
\* interchangeable.
Symmetry ==
    Permutations(Repos) \cup Permutations(Owners) \cup Permutations(Sources)
        \cup Permutations(Configs) \cup Permutations(ValidContents \ {NoRows})

\* The later reading of the callers' clocks.
Late == CHOOSE t \in Times : \A u \in Times : u <= t

\* The steps an instance with two clock readings looks at.  One of the runs
\* is worked on by callers with any reading until it ends, so it goes stale at
\* any stage and is recovered; everything else happens late.  Runs start in
\* any order of their numbers.
OneRunGoesStale ==
    /\ \A r \in Repos : repo'[r] # repo[r] => repo'[r].updated = Late
    /\ \A i \in Runs : (job'[i] # job[i] /\ (i = 1 \/ Terminal(i)')) => job'[i].updated = Late

\* The straight path of a run, from its start to publication or failure, and
\* cleanup.  Enough runs to build up a history of superseded generations fit
\* in an instance that leaves the other operations to the other runs.  Runs
\* start in any order of their numbers and of their clocks; everything after
\* a start happens late.
HistoryNext ==
    \/ \E r \in Repos, src \in Sources :
          \/ RegisterInventory(r, src, Late)
          \/ \E i \in Runs, o \in Owners, cfg \in Configs, created \in Times :
                StartJob(i, r, o, src, cfg, 0, created)
    \/ \E i \in Runs, o \in Owners :
          \/ FinishInventory(i, o, "link", Late)
          \/ LinkGeneration(i, o, NoRows, Late)
          \/ DeriveTemplateCandidates(i, o, NoRows, Late)
          \/ FinalizeSynthesisCatalog(i, o, NoRows, Late)
          \/ ValidateGenerationForPublication(i, o, Late)
          \/ PublishGeneration(i, o, Late)
          \/ job[i].stage = "inventory" /\ FailJob(i, o, Late)
          \/ CompleteJob(i, o, Late)
          \/ \E retain \in 0..MaxCleanup :
                CleanupGenerations(i, o, retain, Late)

HistorySpec == Init /\ [][HistoryNext]_vars
=============================================================================

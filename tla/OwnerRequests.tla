------------------------------ MODULE OwnerRequests ------------------------------
(***************************************************************************)
(* What DashboardController and EtlJobsController do with the profile of   *)
(* an identity: the first request stores it, several can be first at once, *)
(* and only the unique index keeps the profiles apart.  The dashboard is   *)
(* then five queries with nothing that keeps them together, while jobs     *)
(* are created, switched and run.                                          *)
(***************************************************************************)
EXTENDS Naturals, Sequences, FiniteSets, Functions

CONSTANTS
    Requests,
    RecentCount,           \* the 10 of Index
    MaxJobs, MaxHistory    \* bounds of the model

ASSUME RecentAssumption == RecentCount \in Nat

VARIABLES
    profiles,  \* the ids of the identity's stored profiles, in the order stored
    jobs,      \* the stored jobs: owner, active
    history,   \* the runs of all jobs, in the order they started: job, status
    request    \* each request: what it does, how far it is, what it read

ownerVars == <<profiles, jobs, history, request>>

Pages == {"dashboard", "create"}
Unread == [total |-> 0, active |-> 0, succeeded |-> 0, failed |-> 0, recent |-> <<>>]
Free == [page |-> "dashboard", phase |-> "free", owner |-> 0, shown |-> Unread,
         jobsBefore |-> 0, hadProfile |-> FALSE]

Advances(r, phase) == request' = [request EXCEPT ![r].phase = phase]

Reads(r, query, value, phase) ==
    /\ request' = [request EXCEPT ![r].shown[query] = value, ![r].phase = phase]
    /\ UNCHANGED <<profiles, jobs, history>>

JobsOf(owner) == {j \in DOMAIN jobs : jobs[j].owner = owner}

\* Mutant: the runs of jobs that are switched off are left out.
RunsOfActive(owner) ==
    RestrictValues(history, LAMBDA run : jobs[run.job].owner = owner /\ jobs[run.job].active)

\* Runs are a part of the history: each keeps its place in it, so that the later of
\* two is the one with the greater place.
RunsOf(owner) == RestrictValues(history, LAMBDA run : jobs[run.job].owner = owner)
CountByStatus(runs, status) == Cardinality({h \in DOMAIN runs : runs[h].status = status})

-----------------------------------------------------------------------------
\* GetCurrentOwnerIdAsync of both controllers.

Begin(r, p) ==
    /\ request[r].phase \in {"free", "page", "error"}
    /\ request' = [request EXCEPT ![r] =
            [Free EXCEPT !.page = p, !.phase = "arrived", !.jobsBefore = Len(jobs),
                         !.hadProfile = profiles # <<>>]]
    /\ UNCHANGED <<profiles, jobs, history>>

AfterOwner(r) == IF request[r].page = "dashboard" THEN "total" ELSE "job"

FindsProfile(r) ==
    /\ profiles # <<>>
    /\ request' = [request EXCEPT ![r].owner = profiles[1], ![r].phase = AfterOwner(r)]

FindsNone(r) == profiles = <<>> /\ Advances(r, "insert")

GetUserByIdentityId(r) ==
    /\ request[r].phase = "arrived"
    /\ FindsProfile(r) \/ FindsNone(r)
    /\ UNCHANGED <<profiles, jobs, history>>

\* Mutant: without the unique index, every first request has a profile of its own.
StoresAnyway(r) ==
    /\ request[r].phase = "insert"
    /\ profiles' = Append(profiles, Len(profiles) + 1)
    /\ request' = [request EXCEPT ![r].owner = Len(profiles) + 1, ![r].phase = AfterOwner(r)]
    /\ UNCHANGED <<jobs, history>>

\* AddUser and SaveChanges; the index on IdentityUserId refuses a second profile.
AddUser(r) ==
    /\ request[r].phase = "insert"
    /\ \/ /\ profiles = <<>>
          /\ profiles' = <<1>>
          /\ request' = [request EXCEPT ![r].owner = 1, ![r].phase = AfterOwner(r)]
       \/ /\ profiles # <<>>
          /\ Advances(r, "error")
          /\ UNCHANGED profiles
    /\ UNCHANGED <<jobs, history>>

-----------------------------------------------------------------------------
\* The five queries of Index, in the order they are made.

GetTotalJobsCount(r) ==
    /\ request[r].phase = "total"
    /\ Reads(r, "total", Cardinality(JobsOf(request[r].owner)), "active")

GetActiveJobsCount(r) ==
    /\ request[r].phase = "active"
    /\ Reads(r, "active", Cardinality({j \in JobsOf(request[r].owner) : jobs[j].active}), "succeeded")

GetSuccessfulRunsCount(r) ==
    /\ request[r].phase = "succeeded"
    /\ Reads(r, "succeeded", CountByStatus(RunsOf(request[r].owner), "Succeeded"), "failed")

GetFailedRunsCount(r) ==
    /\ request[r].phase = "failed"
    /\ Reads(r, "failed", CountByStatus(RunsOf(request[r].owner), "Failed"), "recent")

\* OrderByDescending(StartedAtUtc).Take(count): those with less than count after them.
RecentRuns(runs) ==
    RestrictDomain(runs, LAMBDA h : Cardinality({later \in DOMAIN runs : later > h}) < RecentCount)

GetRecentJobRuns(r) ==
    /\ request[r].phase = "recent"
    /\ Reads(r, "recent", RecentRuns(RunsOf(request[r].owner)), "page")

\* POST Create, the rest of it.
AddJob(r) ==
    /\ request[r].phase = "job"
    /\ Len(jobs) < MaxJobs
    /\ jobs' = Append(jobs, [owner |-> request[r].owner, active |-> TRUE])
    /\ Advances(r, "page")
    /\ UNCHANGED <<profiles, history>>

\* A query or a save throws, or the form is not valid: nothing is stored.
RequestFails(r) ==
    /\ request[r].phase \notin {"free", "page", "error"}
    /\ request' = [request EXCEPT ![r] = Free]
    /\ UNCHANGED <<profiles, jobs, history>>

\* The steps of a request that nothing fails.
Serves(r) ==
    \/ GetUserByIdentityId(r) \/ AddUser(r) \/ AddJob(r)
    \/ GetTotalJobsCount(r) \/ GetActiveJobsCount(r) \/ GetSuccessfulRunsCount(r)
    \/ GetFailedRunsCount(r) \/ GetRecentJobRuns(r)

-----------------------------------------------------------------------------
\* Other requests and runs meanwhile: Activate and Deactivate, a Run that adds its
\* entry, and the one execution that completes it.

Switch(j) ==
    /\ jobs' = [jobs EXCEPT ![j].active = ~ @]
    /\ UNCHANGED <<profiles, history, request>>

MarkQueued(j) ==
    /\ Len(history) < MaxHistory
    /\ history' = Append(history, [job |-> j, status |-> "Queued"])
    /\ UNCHANGED <<profiles, jobs, request>>

Complete(h, finalStatus) ==
    /\ history[h].status = "Queued"
    /\ history' = [history EXCEPT ![h].status = finalStatus]
    /\ UNCHANGED <<profiles, jobs, request>>

OwnerInit ==
    /\ profiles = <<>>
    /\ jobs = <<>>
    /\ history = <<>>
    /\ request = [r \in Requests |-> Free]

OwnerNext ==
    \/ \E r \in Requests :
          \/ \E p \in Pages : Begin(r, p)
          \/ Serves(r)
          \/ RequestFails(r)
    \/ \E j \in DOMAIN jobs : Switch(j) \/ MarkQueued(j)
    \/ \E h \in DOMAIN history, outcome \in {"Succeeded", "Failed"} : Complete(h, outcome)

-----------------------------------------------------------------------------
Dashboards == {r \in Requests : request[r].phase = "page" /\ request[r].page = "dashboard"}

\* Whichever requests of a new user are first, and however they cross, its dashboard
\* counts every job that one of its requests had stored before the page was asked for.
DashboardCountsEveryJob ==
    \A r \in Dashboards : request[r].shown.total >= request[r].jobsBefore

\* Only requests that cross the first one fail on the profile: with a profile stored,
\* a request that begins gets it.
LaterRequestsHaveTheProfile ==
    \A r \in Requests : request[r].hadProfile => request[r].phase \notin {"insert", "error"}

\* With executions that do not overlap, so that an entry is completed once
\* (EtlJobLifecycle has the others), the list of recent runs is never behind the
\* counts above it, although the queries are apart: while it is not full, it shows at
\* least as many ended runs of either kind as were counted.
RecentRunsCoverTheCounts ==
    \A r \in Dashboards :
        LET shown == request[r].shown
        IN  Cardinality(DOMAIN shown.recent) < RecentCount =>
              /\ CountByStatus(shown.recent, "Succeeded") >= shown.succeeded
              /\ CountByStatus(shown.recent, "Failed") >= shown.failed
=============================================================================

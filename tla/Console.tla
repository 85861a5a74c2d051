--------------------------------- MODULE Console ---------------------------------
(* Those who look at a job: the command line (`lcjs job get` and `wait`), the job  *)
(* page of the browser console with the script that draws its charts               *)
(* (httpapi/static/charts.js), and the sessions a browser signs in with            *)
(* (store/sqlite/auth.go).                                                         *)
(*                                                                                 *)
(* GetJobDetail and writeJobMetrics are several queries and no transaction: each   *)
(* is a step of its own, and the control plane goes on between them.  There is one *)
(* client, of a kind chosen at the start; a visitor only signs in and out, which   *)
(* has nothing to do with any job.  The worker numbers its events and sends each   *)
(* once: SyncSystem shows that lost and repeated syncs come to the same.           *)
EXTENDS ControlPlane, Timestamps, SequencesExt

CONSTANTS
    Clients,        \* kinds of client, among "get", "wait", "browser", "visitor"
    Watched,        \* the job looked at
    Life,           \* sessionLife, 90 days in the code
    Moments,        \* bound: what the clock shows
    MaxLogins,      \* bound: sessions created, per kind of client
    MaxFailures     \* bound: requests that fail

ASSUME ConsoleAssumption ==
    /\ Clients \subseteq {"get", "wait", "browser", "visitor"}
    /\ Watched \in Jobs /\ Life \in Nat \ {0} /\ Moments \subseteq Nat
    /\ MaxFailures \in Nat /\ \A kind \in Clients : MaxLogins[kind] \in Nat

VARIABLES
    clock,
    sessions,   \* browser_sessions: [id, expires], expires as it is written
    granted,    \* history: [id, until] of the sessions not signed out from
    logins,     \* sessions created so far; a session's id is its number
    client,     \* [kind, pc, cookie, todo]: todo, the queries its request still makes
    view,       \* the job detail a request puts together, then the answer or page
    payload,    \* the same for metrics.json
    chart,      \* the page's script: [cursor, points, known, first]
    final,      \* history: the job's row when the job ended
    failures

clientVars == <<clock, sessions, granted, logins, client, view, payload, chart, failures>>
conVars == <<db, tx, req, final, clientVars>>

Columns == {"state", "attempts", "samples", "files", "fired"}

\* The samples of a job in no order: GetJobDetail sorts them by the time a job gave
\* them, which may be any.
Unordered(samples) == {<<i, samples[i]>> : i \in DOMAIN samples}

\* One query of GetJobDetail, or the first one of writeJobMetrics.
Column(row, c) ==
    CASE c = "state"    -> row.state
      [] c = "attempts" -> [n \in DOMAIN row.attempts |-> row.attempts[n].state]
      [] c = "samples"  -> Unordered(row.samples)
      [] c = "files"    -> [n \in DOMAIN row.attempts |-> row.attempts[n].files]
      [] c = "fired"    -> [n \in DOMAIN row.attempts |-> row.attempts[n].fired]

\* A mutant: the attempts are listed before the job is read.
DetailReads_attemptsFirst == <<"attempts", "state", "samples", "files", "fired">>

\* The queries of GetJobDetail in their order.
DetailReads == <<"state", "attempts", "samples", "files", "fired">>

\* A mutant: the job's state is read after its samples.
MetricsReads_stateLast == <<"samples", "state">>

\* The queries of writeJobMetrics in their order.
MetricsReads == <<"state", "samples">>

Nothing == "nothing"
NoView == [state |-> Nothing, attempts |-> << >>, samples |-> {}, files |-> << >>, fired |-> << >>]
NoPayload == [state |-> Nothing, samples |-> << >>]
NoChart == [cursor |-> 0, points |-> << >>, known |-> Nothing, first |-> Nothing]
NoCookie == 0
SessionIds == 1 .. MaxLogins[client.kind]

Pcs == {"ask", "read", "done", "gaveup", "login", "home", "open", "page", "poll", "stopped"}

ConsoleTypeOK ==
    /\ TypeOK
    /\ clock \in Moments
    /\ \A r \in sessions : r.id \in SessionIds
    /\ \A g \in granted : g.id \in SessionIds /\ g.until \in Nat
    /\ logins \in {0} \cup SessionIds /\ failures \in 0 .. MaxFailures
    /\ client.kind \in Clients /\ client.pc \in Pcs /\ client.cookie \in {0} \cup SessionIds
    /\ client.todo \in Seq(Columns)
    /\ client.pc \notin {"read", "poll"} => client.todo = << >>
    /\ client.pc \in {"done", "page", "poll", "stopped"} => view.state \in JobStates \ {"absent"}
    /\ chart.cursor = Len(chart.points)
    /\ chart.known \in JobStates \cup {Nothing} /\ chart.first \in JobStates \cup {Nothing}
    /\ final \in JobRows

ConsoleInit ==
    /\ Init
    /\ clock \in Moments /\ \A m \in Moments : clock <= m
    /\ sessions = {} /\ granted = {} /\ logins = 0
    /\ \E kind \in Clients :
          client = [kind |-> kind, cookie |-> NoCookie, todo |-> << >>,
                    pc |-> IF kind \in {"get", "wait"} THEN "ask" ELSE "login"]
    /\ view = NoView /\ payload = NoPayload /\ chart = NoChart
    /\ final = NoJobRow
    /\ failures = 0

---------------------------------------------------------------------------
(* The control plane goes on: a client sees a sync when it is committed, so each
   of its transactions is one step *)

\* The worker's next event, committed.
Report(w, s, body) ==
    LET n == Cardinality(db.events) + 1
        e == [seq |-> n, id |-> n, body |-> body]
    IN  /\ e \in Events
        /\ CanRecord(db, w, s, e)
        /\ Do(Recorded(db, w, s, e))

\* An offer, committed.
OfferJob(w, j) ==
    /\ db.worker[w] # "absent"
    /\ Schedulable(db.job[j]) /\ Slack(db, w)
    /\ JobFits(JobSpec[j], WithDefaults(Capacity[w]), CurrentAllocation(Held(db, w)))
    /\ Do([db EXCEPT !.job[j] = Offered(@, w)])

Plane ==
    /\ client.kind # "visitor"
    /\ \/ Operator
       \/ \E w \in Workers, s \in Sessions, body \in EventBodies : Report(w, s, body)
       \/ \E w \in Workers, j \in Jobs : OfferJob(w, j)
    /\ final' = IF db.job[Watched].state \notin Ended /\ db'.job[Watched].state \in Ended
                THEN db'.job[Watched] ELSE final
    /\ UNCHANGED clientVars

\* A step of the client: it reads, and changes no job.
Aside == UNCHANGED <<db, tx, req, final>>

---------------------------------------------------------------------------
(* Sessions *)

Tick ==
    /\ client.kind = "visitor"
    /\ clock' \in Moments
    /\ clock < clock' /\ \A m \in Moments : clock < m => clock' <= m
    /\ Aside
    /\ UNCHANGED <<sessions, granted, logins, client, view, payload, chart, failures>>

\* A mutant: expiry is compared in the format of the other tables.
Written_trimmed(t) == formatTime(t)

\* How browser_sessions keeps a time.
Written(t) == formatSortableTime(t)

\* AuthenticateBrowserSession
Authenticates(r) == Precedes(Written(clock), r.expires)
SignedIn(id) == \E r \in sessions : r.id = id /\ Authenticates(r)

\* CreateBrowserSession: what has expired is removed first.
WithSession(id) ==
    {r \in sessions : ~NotAfter(r.expires, Written(clock))}
        \cup {[id |-> id, expires |-> Written(clock + Life)]}

\* login, with an API token that is valid; a browser comes from the login page, a
\* visitor is any number of browsers.
Login ==
    /\ client.pc = "login" /\ logins < MaxLogins[client.kind]
    /\ Aside
    /\ logins' = logins + 1
    /\ sessions' = WithSession(logins + 1)
    /\ granted' = granted \cup {[id |-> logins + 1, until |-> clock + Life]}
    /\ client' = IF client.kind = "visitor" THEN client
                 ELSE [client EXCEPT !.pc = "home", !.cookie = logins + 1]
    /\ UNCHANGED <<clock, view, payload, chart, failures>>

\* logout, possibly in another tab: the session's row is deleted, which may fail
\* unnoticed, and the cookie is gone in any case.
Logout(id) ==
    /\ \E g \in granted : g.id = id
    /\ client.kind = "visitor" \/ client.cookie = id
    /\ Aside
    /\ \/ /\ sessions' = {r \in sessions : r.id # id}
          /\ granted' = {g \in granted : g.id # id}
          /\ UNCHANGED failures
       \/ /\ failures < MaxFailures
          /\ failures' = failures + 1
          /\ UNCHANGED <<sessions, granted>>
    /\ client' = [client EXCEPT !.cookie = NoCookie]
    /\ UNCHANGED <<clock, logins, view, payload, chart>>

---------------------------------------------------------------------------
(* The command line *)

unchangedSessions == UNCHANGED <<clock, sessions, granted, logins>>

\* runJobGet asks for a job that exists, as often as it takes.
Ask ==
    /\ client.pc = "ask"
    /\ Aside
    /\ db.job[Watched].state # "absent"
    /\ client' = [client EXCEPT !.pc = "read", !.todo = DetailReads]
    /\ view' = NoView
    /\ unchangedSessions /\ UNCHANGED <<payload, chart, failures>>

\* `get` prints the first answer, `wait` the first one with a terminal state.
Enough(kind, state) == kind = "get" \/ state \in Ended

\* GetJobDetail: one query.  After the last one the answer is printed or the request
\* made again, or the page is rendered and its script starts.
ReadNext ==
    LET c == Head(client.todo)
        answer == [view EXCEPT ![c] = Column(db.job[Watched], c)]
    IN  /\ client.pc = "read"
        /\ Aside
        /\ view' = answer
        /\ client' = [client EXCEPT
              !.todo = Tail(@),
              !.pc = IF Len(client.todo) > 1 THEN "read"
                     ELSE IF client.kind = "browser" THEN "page"
                     ELSE IF Enough(client.kind, answer.state) THEN "done" ELSE "ask"]
        /\ unchangedSessions /\ UNCHANGED <<payload, chart, failures>>

---------------------------------------------------------------------------
(* The job page *)

Empty == view' = NoView /\ payload' = NoPayload /\ chart' = NoChart

\* The user opens the job page.
Open ==
    /\ client.pc = "home"
    /\ Aside
    /\ client' = [client EXCEPT !.pc = "open"]
    /\ Empty /\ unchangedSessions /\ UNCHANGED failures

\* The user leaves it.
Leave ==
    /\ client.pc \in {"page", "stopped"}
    /\ Aside
    /\ client' = [client EXCEPT !.pc = "home"]
    /\ Empty /\ unchangedSessions /\ UNCHANGED failures

\* jobPage: the session, then the job if it exists.
OpenPage ==
    /\ client.pc = "open"
    /\ Aside
    /\ client' = IF ~SignedIn(client.cookie) THEN [client EXCEPT !.pc = "login"]
                 ELSE IF db.job[Watched].state = "absent" THEN [client EXCEPT !.pc = "home"]
                 ELSE [client EXCEPT !.pc = "read", !.todo = DetailReads]
    /\ unchangedSessions /\ UNCHANGED <<view, payload, chart, failures>>

\* poll, at once and then by the timer.  Without a session it reloads the page.
Poll ==
    /\ client.pc = "page"
    /\ Aside
    /\ \/ /\ SignedIn(client.cookie)
          /\ client' = [client EXCEPT !.pc = "poll", !.todo = MetricsReads]
          /\ UNCHANGED <<view, payload, chart>>
       \/ /\ ~SignedIn(client.cookie)
          /\ client' = [client EXCEPT !.pc = "open"]
          /\ Empty
    /\ unchangedSessions /\ UNCHANGED failures

\* ListJobMetricPoints: the samples after the cursor.
After(samples, cursor) == SubSeq(samples, cursor + 1, Len(samples))

\* A mutant: the page is not redrawn when the state changes.
MustReload_never(known, state) == FALSE

\* A state that differs from the one before redraws the page.
MustReload(known, state) == known \notin {Nothing, state}

\* A mutant: the list of terminal states lacks one.
Terminal_withoutCanceled == Ended \ {"canceled"}

\* TERMINAL of the script.
Terminal == Ended

\* apply, and what follows: the page is reloaded, polling ends, or it goes on.
Apply(answer) ==
    IF MustReload(chart.known, answer.state)
    THEN /\ client' = [client EXCEPT !.pc = "open", !.todo = << >>]
         /\ Empty
    ELSE /\ client' = [client EXCEPT !.todo = << >>,
                          !.pc = IF answer.state \in Terminal THEN "stopped" ELSE "page"]
         /\ chart' = [cursor |-> chart.cursor + Len(answer.samples),
                      points |-> chart.points \o answer.samples,
                      known  |-> answer.state,
                      first  |-> IF chart.first = Nothing THEN answer.state ELSE chart.first]
         /\ payload' = NoPayload
         /\ UNCHANGED view

\* writeJobMetrics: one query.  After the last one the script has its answer.
PollNext ==
    LET c == Head(client.todo)
        answer == [payload EXCEPT ![c] =
                      IF c = "samples" THEN After(db.job[Watched].samples, chart.cursor)
                      ELSE Column(db.job[Watched], c)]
    IN  /\ client.pc = "poll"
        /\ Aside
        /\ IF Len(client.todo) > 1
           THEN /\ client' = [client EXCEPT !.todo = Tail(@)]
                /\ payload' = answer
                /\ UNCHANGED <<view, chart>>
           ELSE Apply(answer)
        /\ unchangedSessions /\ UNCHANGED failures

\* A request times out or is answered with an error: the command line ends, a page
\* is not shown, a poll is tried again.
RequestFails ==
    /\ client.pc \in {"open", "read", "poll"}
    /\ failures < MaxFailures
    /\ failures' = failures + 1
    /\ Aside
    /\ client' = [client EXCEPT
          !.todo = << >>,
          !.pc = IF client.kind # "browser" THEN "gaveup"
                 ELSE IF @ = "poll" THEN "page" ELSE "home"]
    /\ payload' = NoPayload
    /\ view' = IF client.pc = "poll" THEN view ELSE NoView
    /\ unchangedSessions /\ UNCHANGED chart

---------------------------------------------------------------------------
\* What the client does by itself once it was asked.
ClientStep ==
    \/ Ask \/ OpenPage \/ ReadNext
    \/ Poll \/ PollNext

User == Login \/ (\E id \in SessionIds : Logout(id)) \/ Open \/ Leave

ConsoleNext == Plane \/ ClientStep \/ User \/ Tick \/ RequestFails

ConsoleSpec == ConsoleInit /\ [][ConsoleNext]_conVars

\* Whoever waits for the connection gets it between two transactions, and a timer
\* that was set goes off.  Nothing makes a user act, a job end or a worker call.
FairConsoleSpec == ConsoleSpec /\ WF_conVars(ClientStep)

---------------------------------------------------------------------------
(* Properties *)

Shown == client.pc \in {"done", "page", "poll", "stopped"}

\* An answer or a page that shows the job as ended shows what the job will always
\* be, although it is put together from five queries between which syncs commit: the
\* state, every attempt and firing, and every sample of the time the job ended.
\* `job wait` prints no other answer.
AnswersFinal ==
    /\ client.kind = "wait" /\ client.pc = "done" => view.state \in Ended
    /\ Shown /\ view.state \in Ended =>
          /\ \A c \in {"state", "attempts", "fired"} : view[c] = Column(db.job[Watched], c)
          /\ Unordered(final.samples) \subseteq view.samples

\* The chart has every sample once and in order, whatever polls fail, and when
\* polling ends it has all the samples of the time the job ended (the cursor of
\* ListJobMetricPoints, the order of writeJobMetrics' queries).
ChartExact ==
    /\ client.pc \in {"page", "poll", "stopped"} => IsPrefix(chart.points, db.job[Watched].samples)
    /\ client.pc = "stopped" => IsPrefix(final.samples, chart.points)

\* A page whose first poll found the state it shows is truthful when polling ends:
\* state, attempts and firings are those of the job ("A state change redraws the
\* whole page").  A job that ends between the page's queries and the first poll
\* leaves the page as it is, because the script knows no earlier state.
PageTruthful ==
    client.pc = "stopped" /\ chart.first = view.state =>
        \A c \in {"state", "attempts", "fired"} : view[c] = Column(db.job[Watched], c)

\* A session is good from its login until its logout or the end of its life, to the
\* tick, whoever else signs in meanwhile (expires_at is compared as a string, and
\* every login removes what has expired).
SessionsExact ==
    {r.id : r \in {q \in sessions : Authenticates(q)}}
        = {g.id : g \in {h \in granted : clock < h.until}}

\* Once the job has ended its client comes to rest: the command has printed or
\* failed, the page has stopped polling or is not shown any more.
ClientRests ==
    db.job[Watched].state \in Ended
        ~> client.pc \in {"done", "gaveup", "stopped", "login", "home"}
=============================================================================

-------------------------- MODULE IncidentRouting --------------------------
(***************************************************************************)
(* The incident router and its sinks (src/agent_core/router.py, sinks.py).  *)
(* A cycle binds its run to a Notifier, then routes incidents: classify,    *)
(* look the route up, fire its handlers one by one, report.  Cycles may     *)
(* share a Notifier.  An incident is the set of signal patterns its text    *)
(* matches; identifiers are kept only as who returned them.                 *)
(***************************************************************************)
EXTENDS Integers, Sequences, FiniteSets, Totals

CONSTANTS
    Cycle,
    NotifierOf,       \* Cycle -> the notifier it was given
    Signals,          \* KeywordClassifier.signals: a sequence of [domain, pattern]
    Precedence,       \* KeywordClassifier.precedence: a sequence of domains
    Override,         \* domain -> handler names, for each {PREFIX}_ROUTING_{DOMAIN} set
    AppHandler,       \* handlers of the app, by name; they can handle every domain
    SettingsOf,       \* notifier -> [webhook, backend]: whether Slack is configured, and
                      \* where tickets go, "github", "endpoint" or "stub"
    MaxPerCycle, MaxPerHour,
    MaxIncidents,     \* bound: incidents a cycle routes
    Adhoc, None

RoutingAssumption ==
    /\ \A c \in Cycle : SettingsOf[NotifierOf[c]] \in
           [webhook : BOOLEAN, backend : {"github", "endpoint", "stub"}]
    /\ {MaxPerCycle, MaxPerHour, MaxIncidents} \subseteq Nat
    /\ IsFiniteSet(Cycle) /\ Adhoc \notin Cycle
    /\ AppHandler \cap {"alert", "ticket"} = {}
    /\ Precedence \in Seq(STRING) /\ Signals \in Seq([domain : STRING, pattern : STRING])
    /\ \A d \in DOMAIN Override : Override[d] \in Seq(STRING)
    /\ None \notin (AppHandler \cup {"ticket"}) \X {"url", "id"}

VARIABLES
    pc,       \* Cycle -> "new", "bound", "firing", "sending", "done" or "raised"
    routed,   \* Cycle -> the incidents it has routed or is routing
    runId,    \* notifier -> its _run_id
    spent,    \* run id -> actions the limiter counted for it
    hits,     \* Cycle -> the patterns the incident at hand matches
    domain, todo, fired, artifacts, primary,  \* Cycle -> the local variables of route()
    accepted, \* history: Cycle -> handlers whose destination took the incident at hand
    returned  \* history: Cycle -> the <<handler, kind>> identifiers destinations returned

vars == <<pc, routed, runId, spent, hits, domain, todo, fired, artifacts, primary,
          accepted, returned>>
record == <<domain, artifacts, primary>>

Pattern == {Signals[i].pattern : i \in DOMAIN Signals}

-----------------------------------------------------------------------------
(* The classifier. *)

MatchedDomain(d, hit) == \E i \in DOMAIN Signals : Signals[i].domain = d /\ Signals[i].pattern \in hit

\* by_domain keeps one pattern of a domain, the last.
LastPattern(d) ==
    LET last == CHOOSE i \in DOMAIN Signals :
                    /\ Signals[i].domain = d
                    /\ \A j \in DOMAIN Signals : Signals[j].domain = d => j <= i
    IN  Signals[last].pattern

\* What matches() lists: the ranked domains, then the others in the order of the signals.
Ranked(hit) ==
    {i \in DOMAIN Precedence :
        /\ \E j \in DOMAIN Signals : Signals[j].domain = Precedence[i]
        /\ LastPattern(Precedence[i]) \in hit}
Hitting(hit) == {i \in DOMAIN Signals : Signals[i].pattern \in hit}

First(S) == CHOOSE i \in S : \A j \in S : i <= j

Classify(hit) ==
    IF Ranked(hit) # {} THEN Precedence[First(Ranked(hit))]
    ELSE IF Hitting(hit) # {} THEN Signals[First(Hitting(hit))].domain
    ELSE "unknown"

-----------------------------------------------------------------------------
(* Routes and handlers. *)

DefaultRouting ==
    [finance |-> <<"alert", "ticket">>, infra |-> <<"ticket">>, data_quality |-> <<"ticket">>,
     security |-> <<"alert", "ticket">>, unknown |-> <<"ticket">>]

RouteFor(d) ==
    IF d \in DOMAIN Override THEN Override[d]
    ELSE IF d \in DOMAIN DefaultRouting THEN DefaultRouting[d]
    ELSE DefaultRouting["unknown"]

Known == {"alert", "ticket"} \cup AppHandler
CanHandle(h, d) == h = "alert" => d \in {"finance", "security"}

\* What a handler's result says, and the identifiers it carries.
Result(h, status, synthetic, ids) ==
    [handler |-> h, status |-> status, synthetic |-> synthetic, ids |-> ids]

\* Counts whatever is not an error as delivered.
DeliveredIfQuiet(r) == r.status \in {"fired", "noop"}
Delivered(r) == r.status = "fired" /\ ~r.synthetic

\* The result joins the record, and a real delivery's identifiers its artifacts: the
\* URL under the handler's name, the ticket id unless one is there already.
Report(c, r) ==
    LET theirs == {<<r.handler, k>> : k \in r.ids}
        firstId == \A a \in artifacts[c] : a[2] = "url"
    IN  /\ fired' = [fired EXCEPT ![c] = Append(@, r)]
        /\ todo' = [todo EXCEPT ![c] = Tail(@)]
        /\ pc' = [pc EXCEPT ![c] = "firing"]
        /\ IF Delivered(r)
           THEN /\ artifacts' = [artifacts EXCEPT ![c] =
                       @ \cup {a \in theirs : a[2] = "url" \/ firstId}]
                /\ primary' = [primary EXCEPT ![c] =
                       IF @ # None \/ r.ids = {} THEN @
                       ELSE <<r.handler, IF "url" \in r.ids THEN "url" ELSE "id">>]
           ELSE UNCHANGED <<artifacts, primary>>

-----------------------------------------------------------------------------
BindRun(c) ==
    /\ pc[c] = "new"
    /\ runId' = [runId EXCEPT ![NotifierOf[c]] = c]
    /\ pc' = [pc EXCEPT ![c] = "bound"]
    /\ UNCHANGED <<routed, spent, hits, todo, fired, record, accepted, returned>>

\* route() up to its loop.
Route(c, hit) ==
    /\ pc[c] \in {"bound", "done", "raised"} /\ routed[c] < MaxIncidents
    /\ routed' = [routed EXCEPT ![c] = @ + 1]
    /\ hits' = [hits EXCEPT ![c] = hit]
    /\ domain' = [domain EXCEPT ![c] = Classify(hit)]
    /\ todo' = [todo EXCEPT ![c] = RouteFor(Classify(hit))]
    /\ fired' = [fired EXCEPT ![c] = <<>>]
    /\ artifacts' = [artifacts EXCEPT ![c] = {}]
    /\ primary' = [primary EXCEPT ![c] = None]
    /\ accepted' = [accepted EXCEPT ![c] = {}]
    /\ returned' = [returned EXCEPT ![c] = {}]
    /\ pc' = [pc EXCEPT ![c] = "firing"]
    /\ UNCHANGED <<runId, spent>>

Firing(c) == pc[c] = "firing" /\ todo[c] # <<>>

\* A name that is in no registry is reported, a handler that declines is passed over.
PassOver(c) ==
    LET h == Head(todo[c])
    IN  /\ Firing(c)
        /\ \/ h \notin Known /\ Report(c, Result(h, "error", FALSE, {}))
           \/ /\ h \in Known /\ ~CanHandle(h, domain[c])
              /\ todo' = [todo EXCEPT ![c] = Tail(@)]
              /\ UNCHANGED <<pc, fired, artifacts, primary>>
        /\ UNCHANGED <<routed, runId, spent, hits, domain, accepted, returned>>

\* An app's handler: it takes no budget here, and may raise, even after it acted.
FireApp(c) ==
    LET h == Head(todo[c])
    IN  /\ Firing(c) /\ h \in AppHandler
        /\ \E acts \in BOOLEAN, raises \in BOOLEAN :
               /\ Report(c, IF raises THEN Result(h, "error", FALSE, {})
                            ELSE IF acts THEN Result(h, "fired", FALSE, {"url"})
                            ELSE Result(h, "noop", TRUE, {}))
               /\ accepted' = [accepted EXCEPT ![c] = IF acts THEN @ \cup {h} ELSE @]
               /\ returned' = [returned EXCEPT ![c] =
                      IF acts /\ ~raises THEN @ \cup {<<h, "url">>} ELSE @]
        /\ UNCHANGED <<routed, runId, spent, hits, domain>>

\* What is outside the loop's try: a can_handle that raises, and a result, of whatever the
\* handler did, that is no dict.  route() raises with it, and there is no record.
Break(c) ==
    LET h == Head(todo[c])
    IN  /\ Firing(c) /\ h \in AppHandler
        /\ pc' = [pc EXCEPT ![c] = "raised"]
        /\ todo' = [todo EXCEPT ![c] = <<>>] /\ fired' = [fired EXCEPT ![c] = <<>>]
        /\ artifacts' = [artifacts EXCEPT ![c] = {}] /\ primary' = [primary EXCEPT ![c] = None]
        /\ \E acts \in BOOLEAN :
               accepted' = [accepted EXCEPT ![c] = IF acts THEN @ \cup {h} ELSE @]
        /\ UNCHANGED <<routed, runId, spent, hits, domain, returned>>

SettingsFor(c) == SettingsOf[NotifierOf[c]]
Configured(c, h) ==
    IF h = "alert" THEN SettingsFor(c).webhook ELSE SettingsFor(c).backend # "stub"

HourSpent == Total(spent, Cycle \cup {Adhoc})

Allows(run) == HourSpent < MaxPerHour /\ spent[run] < MaxPerCycle

\* A built-in handler asks the limiter about the run the notifier is bound to now; a
\* refusal, or nothing to send to, ends it.
Ask(c) ==
    LET h == Head(todo[c])
        run == runId[NotifierOf[c]]
    IN  /\ Firing(c) /\ h \in {"alert", "ticket"} /\ CanHandle(h, domain[c])
        /\ \/ /\ ~Allows(run)
              /\ Report(c, Result(h, "suppressed", TRUE, {}))
              /\ UNCHANGED spent
           \/ /\ Allows(run)
              /\ spent' = [spent EXCEPT ![run] = @ + 1]
              /\ \/ /\ Configured(c, h)
                    /\ pc' = [pc EXCEPT ![c] = "sending"]
                    /\ UNCHANGED <<todo, fired, artifacts, primary>>
                 \/ /\ ~Configured(c, h)
                    /\ Report(c, Result(h, "noop", TRUE, IF h = "ticket" THEN {"id"} ELSE {}))
        /\ UNCHANGED <<routed, runId, hits, domain, accepted, returned>>

\* The identifiers an accepted request's answer may carry: Slack has none, the others
\* what they like.
Answers(h) == IF h = "alert" THEN {{}} ELSE SUBSET {"url", "id"}

\* Those the sink reports: a GitHub issue has an id whatever the answer says, "#None" if
\* it names no number.
MadeUp(c) == IF SettingsFor(c).backend = "github" THEN {<<"ticket", "id">>} ELSE {}
Reported(c, h, ids) == ids \cup {k \in {"id"} : <<h, k>> \in MadeUp(c)}

\* The POST: taken and answered, taken and the answer lost or unreadable, or not taken.
\* An endpoint's unreadable body is an answer without identifiers.
Send(c) ==
    LET h == Head(todo[c])
    IN  /\ pc[c] = "sending"
        /\ \/ \E ids \in Answers(h) :
                  /\ Report(c, Result(h, "fired", FALSE, Reported(c, h, ids)))
                  /\ accepted' = [accepted EXCEPT ![c] = @ \cup {h}]
                  /\ returned' = [returned EXCEPT ![c] = @ \cup {<<h, k>> : k \in ids}]
           \/ /\ Report(c, Result(h, "error", TRUE, {}))
              /\ \/ accepted' = [accepted EXCEPT ![c] = @ \cup {h}]
                 \/ UNCHANGED accepted
              /\ UNCHANGED returned
        /\ UNCHANGED <<routed, runId, spent, hits, domain>>

\* delivery_mode, of a finished record.
Live(c) == \E i \in DOMAIN fired[c] : Delivered(fired[c][i])

Finish(c) ==
    /\ pc[c] = "firing" /\ todo[c] = <<>>
    /\ pc' = [pc EXCEPT ![c] = "done"]
    /\ UNCHANGED <<routed, runId, spent, hits, todo, fired, record, accepted, returned>>

Init ==
    /\ pc = [c \in Cycle |-> "new"] /\ routed = [c \in Cycle |-> 0]
    /\ runId = [n \in {NotifierOf[c] : c \in Cycle} |-> Adhoc]
    /\ spent = [r \in Cycle \cup {Adhoc} |-> 0]
    /\ hits = [c \in Cycle |-> {}] /\ domain = [c \in Cycle |-> "unknown"]
    /\ todo = [c \in Cycle |-> <<>>] /\ fired = [c \in Cycle |-> <<>>]
    /\ artifacts = [c \in Cycle |-> {}] /\ primary = [c \in Cycle |-> None]
    /\ accepted = [c \in Cycle |-> {}] /\ returned = [c \in Cycle |-> {}]

Work(c) == PassOver(c) \/ FireApp(c) \/ Break(c) \/ Ask(c) \/ Send(c) \/ Finish(c)

Next == \E c \in Cycle : BindRun(c) \/ (\E hit \in SUBSET Pattern : Route(c, hit)) \/ Work(c)

\* Every send has a timeout (10 or 15 s) and route() runs on.
Spec == Init /\ [][Next]_vars /\ \A c \in Cycle : WF_vars(Work(c))

-----------------------------------------------------------------------------
TypeOK ==
    /\ pc \in [Cycle -> {"new", "bound", "firing", "sending", "done", "raised"}]
    /\ routed \in [Cycle -> 0..MaxIncidents]
    /\ runId \in [{NotifierOf[c] : c \in Cycle} -> Cycle \cup {Adhoc}]
    /\ spent \in [Cycle \cup {Adhoc} -> 0..MaxPerCycle] /\ HourSpent <= MaxPerHour
    /\ hits \in [Cycle -> SUBSET Pattern]
    /\ \A c \in Cycle : domain[c] \in {"unknown"} \cup {Signals[i].domain : i \in DOMAIN Signals}
    /\ \A c \in Cycle : \A i \in DOMAIN fired[c] :
           fired[c][i].status \in {"fired", "noop", "suppressed", "error"}

\* A record that says "live" stands for at least one destination that took this very
\* incident: "a no-op is never mistaken for a delivery" (router.py:21-22), in whatever
\* order handlers fail, are refused or fall back to a stub.
LiveIsDelivered == \A c \in Cycle : pc[c] = "done" /\ Live(c) => accepted[c] # {}

\* What a record shows as artifacts stands for handlers whose destination took this
\* incident, and is an identifier that destination returned, the primary among them
\* (router.py:263-264), but for the id of a GitHub issue, which is made up when the
\* answer has no number (sinks.py:149-150).
ArtifactsAreReturned ==
    \A c \in Cycle :
        /\ artifacts[c] \subseteq returned[c] \cup MadeUp(c)
        /\ \A a \in artifacts[c] : a[1] \in accepted[c]
        /\ primary[c] # None => primary[c] \in artifacts[c]

\* One failing handler keeps no other from its turn: a finished record names, in the
\* route's order, each handler that is unknown or handles the domain
\* ("never let one handler break the route", router.py:294); a route that a handler
\* breaks all the same, from outside the try, has no record at all.
EveryHandlerTried ==
    \A c \in Cycle : pc[c] = "done" =>
        LET route == RouteFor(domain[c])
            wanted == {i \in DOMAIN route : route[i] \notin Known \/ CanHandle(route[i], domain[c])}
        IN  /\ Len(fired[c]) = Cardinality(wanted)
            /\ \A i \in wanted :
                   fired[c][Cardinality({j \in wanted : j <= i})].handler = route[i]

\* An incident goes where the first domain of the precedence list goes that any of its
\* signals names ("domains that win when several signals match", router.py:87-88), as long
\* as a domain has one signal, like the default ones (router.py:43-58): of several the
\* precedence sees the last.
PrecedenceWins ==
    (\A i, j \in DOMAIN Signals : Signals[i].domain = Signals[j].domain => i = j) =>
        \A c \in Cycle, i \in DOMAIN Precedence :
            /\ pc[c] = "done"
            /\ MatchedDomain(Precedence[i], hits[c])
            /\ \A j \in 1..(i - 1) : ~MatchedDomain(Precedence[j], hits[c])
            => domain[c] = Precedence[i]
=============================================================================

------------------------------- MODULE MCEngine -------------------------------
(* Small instances of the parts of the engine and of what controls it:     *)
(* each behaviour is one of Queue, Fleet, Dedupe, AltSpeed, Services,      *)
(* Stream or Tui, and the others stay where they start.                    *)
EXTENDS Queue, Fleet, Dedupe, AltSpeed, Services, Stream, Tui

CONSTANT x1

VARIABLE part

MCContentOf == [t \in Sharer |-> <<x1>>]

policyVars == <<queueVars, fleetVars, dedupeVars, altSpeedVars, servicesVars>>
controlVars == <<streamVars, tuiVars>>
engineVars == <<part, queueVars, fleetVars, dedupeVars, altSpeedVars, servicesVars,
                streamVars, tuiVars>>

EngineInit ==
    /\ part \in {"queue", "fleet", "dedupe", "altspeed", "services", "stream", "tui"}
    /\ QueueInit /\ FleetInit /\ DedupeInit /\ AltSpeedInit /\ ServicesInit /\ StreamInit /\ TuiInit
    \* what is not looked at starts in one way only
    /\ part # "queue" => complete = [t \in Managed |-> FALSE]
    /\ part # "altspeed" => window = [days |-> {}, start |-> 0, end |-> 0] /\ normal = 1
    /\ part # "stream" => kind = "events"
    /\ part # "tui" => daemon = {}

\* Marking, searching and filtering are looked at in one order of the list and
\* away from the detail screen, the first two apart, dialogs over the whole list,
\* and a full bag of commands without a dialog.
ListOrDetail ==
    /\ marked' # {} \/ query' \/ filter' # "all" => descending' /\ detailHash' = NoTorrent
    /\ query' => marked' = {}
    /\ modal' # "none" \/ BagCardinality(commands') = MaxCommands => ~query' /\ filter' = "all"
    /\ BagCardinality(commands') = MaxCommands => marked' = {} /\ modal' = "none"

EngineNext ==
    /\ UNCHANGED part
    /\ \/ part = "queue" /\ QueueNext /\ UNCHANGED <<fleetVars, dedupeVars, altSpeedVars, servicesVars, controlVars>>
       \/ part = "fleet" /\ FleetNext /\ UNCHANGED <<queueVars, dedupeVars, altSpeedVars, servicesVars, controlVars>>
       \/ part = "dedupe" /\ DedupeNext /\ UNCHANGED <<queueVars, fleetVars, altSpeedVars, servicesVars, controlVars>>
       \/ part = "altspeed" /\ AltSpeedNext /\ UNCHANGED <<queueVars, fleetVars, dedupeVars, servicesVars, controlVars>>
       \/ part = "services" /\ ServicesNext /\ UNCHANGED <<queueVars, fleetVars, dedupeVars, altSpeedVars, controlVars>>
       \/ part = "stream" /\ StreamNext /\ UNCHANGED <<policyVars, tuiVars>>
       \/ part = "tui" /\ TuiNext /\ ListOrDetail /\ UNCHANGED <<policyVars, streamVars>>

\* The fairness of each part, where it runs.
In(p, A) == part = p /\ A
EngineFairness ==
    /\ \A r \in Pass : WF_queueVars(In("queue", PassNext(r)))
    /\ \A g \in Goroutine : WF_fleetVars(In("fleet", CallStep(g)))
    /\ \A h \in Hash : WF_fleetVars(In("fleet", Callback(h)))
    /\ WF_fleetVars(In("fleet", \E i \in DOMAIN tor : Completes(i)))
    /\ SF_dedupeVars(In("dedupe", ~panicked /\ Listing))
    /\ \A t \in Sharer : WF_dedupeVars(In("dedupe", ~panicked /\ Acting(t))) /\ SF_dedupeVars(In("dedupe", ~panicked /\ Adopting(t)))
    /\ WF_altSpeedVars(In("altspeed", ApplyAltSpeed))
    /\ \A c \in Caller : WF_altSpeedVars(In("altspeed", LimiterSet(c)))
    /\ \A s \in Closable, by \in Closers : WF_servicesVars(In("services", CloseNext(s, by)))
    /\ SF_servicesVars(In("services", DhtReads /\ reader' # reader))
    /\ SF_servicesVars(In("services", LsdReads /\ reader'["lsd"] = "gone"))
    /\ WF_servicesVars(In("services", Maintains)) /\ SF_servicesVars(In("services", Maintains /\ maintain' = "gone"))
    /\ WF_servicesVars(In("services", StateSaved)) /\ WF_servicesVars(In("services", Ends))

EngineSpec == EngineInit /\ [][EngineNext]_engineVars /\ EngineFairness

\* The liveness properties of the parts, each where its part runs.
QueueIsConverging == part = "queue" => QueueConvergesInTurn
ScheduleHolds == part = "altspeed" => []WindowIsOpen /\ RateIsReasserted
EverythingEnds ==
    /\ part = "fleet" => StagedLeaves
    /\ part = "dedupe" => LockIsReleased /\ AdoptionEnds
    /\ part = "services" => ShutdownReturns
=============================================================================

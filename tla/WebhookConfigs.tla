--------------------------- MODULE WebhookConfigs ---------------------------
(***************************************************************************)
(* Organisations and their webhook configurations, composed with the       *)
(* deliveries of Webhooks: an event of an organisation is delivered to the *)
(* configurations that fireWebhooks reads when it fires, and retried with  *)
(* what was read then.  A PUT looks its configuration up before it awaits  *)
(* its body and updates the row after it: a DELETE may come in between.    *)
(* Left out: members of organisations, which nothing reads, and the test   *)
(* delivery, which is sent once and leaves no trace.                       *)
(***************************************************************************)
EXTENDS Webhooks, Functions, FiniteSetsExt

CONSTANTS
    Orgs,        \* organisations by slug
    DefaultOrg,  \* inserted with the tables
    Events,      \* WebhookEvent
    Hooks,       \* the uuids that configurations are given
    Updates      \* bodies of PUT: events and enabled, {} if not given

ASSUME ConfigAssumption ==
    /\ DefaultOrg \in Orgs
    /\ Updates \subseteq [events: SUBSET Events, enabled: {{}, {TRUE}, {FALSE}}]

VARIABLES
    orgs,     \* table organizations
    configs,  \* table webhook_configs: id -> row
    deleted,  \* ids of the configurations that were deleted
    editing,  \* configurations whose PUT awaits its body
    sentTo    \* the configuration each delivery was made for

configVars == <<orgs, configs, deleted, editing, sentTo>>
allVars == <<vars, configVars>>

Nobody == [hook |-> FALSE]

-----------------------------------------------------------------------------
\* POST /api/v1/orgs
CreateOrg(o) ==
    /\ o \notin orgs
    /\ orgs' = orgs \cup {o}
    /\ UNCHANGED <<vars, configs, deleted, editing, sentTo>>

\* POST /api/v1/webhooks; the foreign key refuses an unknown organisation
CreateWebhook(h, o, events, enabled) ==
    /\ h \notin DOMAIN configs \cup deleted
    /\ o \in orgs
    /\ configs' = [i \in DOMAIN configs \cup {h} |->
                      IF i = h THEN [org |-> o, events |-> events, enabled |-> enabled]
                      ELSE configs[i]]
    /\ UNCHANGED <<vars, orgs, deleted, editing, sentTo>>

\* PUT /api/v1/webhooks/:id, up to `await c.req.json()`
PutStart(h) ==
    /\ h \in DOMAIN configs \ editing
    /\ editing' = editing \cup {h}
    /\ UNCHANGED <<vars, orgs, configs, deleted, sentTo>>

Overlaid(row, u) ==
    [row EXCEPT !.events  = IF u.events = {} THEN @ ELSE u.events,
                !.enabled = IF u.enabled = {} THEN @ ELSE TRUE \in u.enabled]

\* variant: the row is inserted again if it is gone
Upserted(h, u) ==
    [i \in DOMAIN configs \cup {h} |->
        IF i = h
        THEN Overlaid([org |-> DefaultOrg, events |-> Events, enabled |-> TRUE], u)
        ELSE configs[i]]

\* updateWebhookConfig: an UPDATE, which finds no row after a DELETE
Updated(h, u) ==
    [i \in DOMAIN configs |-> IF i = h THEN Overlaid(configs[i], u) ELSE configs[i]]

\* The rest of the handler; without a row it fails at reading the row back.
PutFinish(h, u) ==
    /\ h \in editing
    /\ editing' = editing \ {h}
    /\ configs' = Updated(h, u)
    /\ UNCHANGED <<vars, orgs, deleted, sentTo>>

\* DELETE /api/v1/webhooks/:id; deliveries under way are not looked at
DeleteWebhook(h) ==
    /\ h \in DOMAIN configs
    /\ configs' = Restrict(configs, DOMAIN configs \ {h})
    /\ deleted' = deleted \cup {h}
    /\ UNCHANGED <<vars, orgs, editing, sentTo>>

\* What GET /api/v1/webhooks shows of an organisation and fireWebhooks reads
listWebhookConfigs(o) == {h \in DOMAIN configs : configs[h].org = o}

\* fireWebhooks: the configurations that an event goes to
Subscribed(o, event) ==
    {h \in listWebhookConfigs(o) : configs[h].enabled /\ event \in configs[h].events}

FireEvent(o, event) ==
    \E f \in Injection(Subscribed(o, event), NewDeliveries) :
        /\ Subscribed(o, event) # {}
        /\ Fire(Range(f))
        /\ sentTo' = [d \in Deliveries |->
                         IF d \in Range(f) THEN Inverse(f, DOMAIN f, Range(f))[d]
                         ELSE sentTo[d]]
        /\ UNCHANGED <<orgs, configs, deleted, editing>>

\* The tables survive; requests under way do not.
Restart ==
    /\ Crash
    /\ editing' = {}
    /\ UNCHANGED <<orgs, configs, deleted, sentTo>>

-----------------------------------------------------------------------------
ConfigInit ==
    /\ Init
    /\ orgs = {DefaultOrg}
    /\ configs = [h \in {} |-> Nobody]
    /\ deleted = {}
    /\ editing = {}
    /\ sentTo = [d \in Deliveries |-> Nobody]

ConfigNext ==
    \/ \E o \in Orgs : \/ CreateOrg(o)
                       \/ \E event \in Events : FireEvent(o, event)
                       \/ \E h \in Hooks, events \in (SUBSET Events) \ {{}},
                             enabled \in BOOLEAN :
                             CreateWebhook(h, o, events, enabled)
    \/ \E h \in Hooks : \/ PutStart(h)
                        \/ \E u \in Updates : PutFinish(h, u)
                        \/ DeleteWebhook(h)
    \/ Deliver /\ UNCHANGED configVars
    \/ Restart

ConfigSpec == ConfigInit /\ [][ConfigNext]_allVars /\ Fairness

-----------------------------------------------------------------------------
(* Properties *)

\* A configuration that was deleted or is disabled gets no new delivery, though
\* a PUT that had looked it up before the DELETE still runs and retries of
\* earlier deliveries still go out.
NothingAfterDeletion ==
    [][\A d \in Deliveries, h \in Hooks :
          (sentTo[d] # h /\ sentTo'[d] = h)
              => h \notin deleted /\ configs[h].enabled]_allVars
=============================================================================

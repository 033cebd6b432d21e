----------------------------- MODULE WhepSessions ------------------------------
(* The live tickets and the WHEP handlers of src/web.rs: a ticket lets a viewer *)
(* open a WebRTC session at MediaMTX through the server, change it and delete   *)
(* it.  webrtc_sessions maps the id the viewer knows to the session's path at   *)
(* MediaMTX; that map alone can find it again.                                  *)
(*                                                                              *)
(* MediaMTX is external.  A refused call changes nothing and is no step.  Left  *)
(* out: SDP, headers, the text of a location, HLS (which only reads files).     *)
(* Pruning expired grants changes no answer, as every reader compares           *)
(* expires_at: the deadline is an event, and the grant stays.                   *)
EXTENDS Naturals

CONSTANTS
    Tickets,    \* tickets that are issued
    Ids,        \* WebRTC sessions that are opened
    Viewers,    \* WHEP calls at a time
    NoTicket, NoId

ASSUME WhepAssumption == NoTicket \notin Tickets /\ NoId \notin Ids

VARIABLES
    grant,      \* live_tickets: "none", "valid", "expired"
    entry,      \* webrtc_sessions: the ticket of each id, or NoTicket
    call,       \* per viewer: where the handler is, its ticket, its session
    remote,     \* the session at MediaMTX: "none", "open", "closed"
    owner,      \* history: the ticket a session was opened with
    known,      \* history: sessions whose id a viewer has been told
    lost        \* history: sessions that a listed failure cut off

whepVars == <<grant, entry, call, remote, owner, known, lost>>

NoCall == [at |-> "none", ticket |-> NoTicket, id |-> NoId]

WhepInit ==
    /\ grant = [t \in Tickets |-> "none"]
    /\ entry = [i \in Ids |-> NoTicket]
    /\ call = [v \in Viewers |-> NoCall]
    /\ remote = [i \in Ids |-> "none"]
    /\ owner = [i \in Ids |-> NoTicket]
    /\ known = {} /\ lost = {}

At(v, place) == call[v].at = place
Return(v)    == call' = [call EXCEPT ![v] = NoCall]
Enter(v, place, t, i) ==
    /\ At(v, "none")
    /\ call' = [call EXCEPT ![v] = [at |-> place, ticket |-> t, id |-> i]]

\* live_grant, and the comparison in whep_patch_handler and whep_delete_handler, for
\* an id that a viewer can name.
Granted(t)  == grant[t] = "valid"
Found(t, i) == Granted(t) /\ i \in known /\ entry[i] = t

-------------------------------------------------------------------------------
(* Tickets *)

\* issue_live_ticket, once the gateway has been started.
Issue(t) ==
    /\ grant[t] = "none"
    /\ grant' = [grant EXCEPT ![t] = "valid"]
    /\ UNCHANGED <<entry, call, remote, owner, known, lost>>

\* 900 seconds later.
Expire(t) ==
    /\ Granted(t)
    /\ grant' = [grant EXCEPT ![t] = "expired"]
    /\ UNCHANGED <<entry, call, remote, owner, known, lost>>

-------------------------------------------------------------------------------
(* whep_post_handler *)

\* The ticket is looked at before the body is read, and not again.
PostBegin(v, t) ==
    /\ Granted(t) /\ Enter(v, "post", t, NoId)
    /\ UNCHANGED <<grant, entry, remote, owner, known, lost>>

\* The body is too long, or MediaMTX is not reached or refuses.
PostFails(v) ==
    /\ At(v, "post") /\ Return(v)
    /\ UNCHANGED <<grant, entry, remote, owner, known, lost>>

\* MediaMTX opens a session and its answer comes back.
PostOpens(v, i) ==
    /\ At(v, "post") /\ remote[i] = "none"
    /\ remote' = [remote EXCEPT ![i] = "open"]
    /\ owner' = [owner EXCEPT ![i] = call[v].ticket]
    /\ call' = [call EXCEPT ![v].at = "opened", ![v].id = i]
    /\ UNCHANGED <<grant, entry, known, lost>>

\* What retain leaves of webrtc_sessions.
Pruned ==
    [i \in Ids |-> IF entry[i] # NoTicket /\ Granted(entry[i]) THEN entry[i] ELSE NoTicket]

\* The session is entered under its new id; it has the deadline of its ticket,
\* which may have passed by now.
PostEnters(v) ==
    /\ At(v, "opened")
    /\ call' = [call EXCEPT ![v].at = "answer"]
    /\ entry' = [Pruned EXCEPT ![call[v].id] = call[v].ticket]
    /\ UNCHANGED <<grant, remote, owner, known, lost>>

\* whep_response has read the body of MediaMTX's answer: the viewer gets the id.
PostReturns(v) ==
    /\ At(v, "answer") /\ Return(v)
    /\ known' = known \cup {call[v].id}
    /\ UNCHANGED <<grant, entry, remote, owner, lost>>

\* The rest of that body does not come: the viewer gets an error, and no id for the
\* entry that stays.
PostUnanswered(v) ==
    /\ At(v, "answer") /\ Return(v)
    /\ lost' = lost \cup {call[v].id}
    /\ UNCHANGED <<grant, entry, remote, owner, known>>

\* MediaMTX's answer is lost, or has a location that normalize_whep_location does not
\* know: the viewer gets an error.
PostMisplaced(v) ==
    /\ At(v, "opened") /\ Return(v)
    /\ lost' = lost \cup {call[v].id}
    /\ UNCHANGED <<grant, entry, remote, owner, known>>

-------------------------------------------------------------------------------
(* whep_patch_handler, whep_delete_handler *)

\* The path is copied under the lock, the body is read after it.
PatchBegin(v, t, i) ==
    /\ Found(t, i) /\ Enter(v, "patch", t, i)
    /\ UNCHANGED <<grant, entry, remote, owner, known, lost>>

PatchReturns(v) ==
    /\ At(v, "patch") /\ Return(v)
    /\ UNCHANGED <<grant, entry, remote, owner, known, lost>>

\* Mutant: the entry is taken out before its ticket is compared.
DeleteBeginUnchecked(v, t, i) ==
    /\ Granted(t) /\ i \in known /\ entry[i] # NoTicket
    /\ entry' = [entry EXCEPT ![i] = NoTicket]
    /\ IF entry[i] = t THEN Enter(v, "delete", t, i) ELSE UNCHANGED call
    /\ UNCHANGED <<grant, remote, owner, known, lost>>

\* The comparison and the removal are under one lock: a second DELETE finds nothing.
DeleteBegin(v, t, i) ==
    /\ Found(t, i) /\ Enter(v, "delete", t, i)
    /\ entry' = [entry EXCEPT ![i] = NoTicket]
    /\ UNCHANGED <<grant, remote, owner, known, lost>>

DeleteReturns(v) ==
    /\ At(v, "delete") /\ Return(v)
    /\ remote' = [remote EXCEPT ![call[v].id] = "closed"]
    /\ UNCHANGED <<grant, entry, owner, known, lost>>

\* MediaMTX is not reached, or answers with an error, which is forwarded; or the
\* deadline has passed since, and it is not asked.  The entry is gone all the same.
DeleteFails(v) ==
    /\ At(v, "delete") /\ Return(v)
    /\ lost' = lost \cup {call[v].id}
    /\ UNCHANGED <<grant, entry, remote, owner, known>>

-------------------------------------------------------------------------------
(* Failures, and MediaMTX *)

\* The viewer closes its connection, and the handler is dropped at its await.
ViewerLeaves(v) ==
    /\ ~At(v, "none") /\ Return(v)
    /\ lost' = IF call[v].at \in {"opened", "answer", "delete"} THEN lost \cup {call[v].id} ELSE lost
    /\ UNCHANGED <<grant, entry, remote, owner, known>>

\* MediaMTX ends a session: the peer has gone, or the camera's stream.
RemoteEnds(i) ==
    /\ remote[i] = "open"
    /\ remote' = [remote EXCEPT ![i] = "closed"]
    /\ UNCHANGED <<grant, entry, call, owner, known, lost>>

-------------------------------------------------------------------------------
WhepTypeOK ==
    /\ grant \in [Tickets -> {"none", "valid", "expired"}]
    /\ entry \in [Ids -> Tickets \cup {NoTicket}]
    /\ call \in [Viewers -> [at: {"none", "post", "opened", "answer", "patch", "delete"},
                             ticket: Tickets \cup {NoTicket}, id: Ids \cup {NoId}]]
    /\ remote \in [Ids -> {"none", "open", "closed"}]
    /\ owner \in [Ids -> Tickets \cup {NoTicket}]
    /\ known \subseteq Ids /\ lost \subseteq Ids

\* A session that is open at MediaMTX can still be deleted by its viewer, who knows
\* its id: it is entered under the ticket it was opened with, or a call that opens or
\* deletes it is under way; unless the ticket has expired, or its POST or its DELETE
\* was cut off: an answer lost on either connection, or refused by MediaMTX.
RemoteAccounted ==
    \A i \in Ids : remote[i] = "open" =>
        \/ i \in known /\ entry[i] = owner[i]
        \/ grant[owner[i]] = "expired"
        \/ \E v \in Viewers : call[v].id = i /\ call[v].at \in {"opened", "answer", "delete"}
        \/ i \in lost
===============================================================================

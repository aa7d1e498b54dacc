------------------------------- MODULE KimiUsage -------------------------------
(***************************************************************************)
(* Asking Kimi for the plan's usage, which sends the operator's key and so *)
(* needs their consent (agent/kimi_usage_consent.rs, daemon/consent.rs,    *)
(* KimiLocator's usage half in agent/adapter/kimi/locator.rs, and          *)
(* emit_session_status in agent/adapter/kimi/transcript.rs).               *)
(*                                                                         *)
(* The command line writes or deletes the consent file; the daemon looks   *)
(* at it once per turn of its loop; a session's supervisor polls and has   *)
(* threads of its own fetch.                                               *)
(***************************************************************************)
EXTENDS Naturals

CONSTANTS MaxConsents, MaxTurns

VARIABLES
    file,      \* the consent file: "none", "empty" while it is written, "on"
    cli,       \* the command that runs
    consents,  \* commands begun
    memory,    \* the daemon's flag
    reloader,  \* the reloader: what it saw last, and what it is doing
    gen,       \* refresh generation (one ahead of the supervisor's or not)
    turns,     \* settled turns of the transcript
    poll,      \* the supervisor: counted turns, its step
    usage,     \* the turn fetched for, the value kept, the thread
    bars,      \* the turn whose limits the card shows; NoBars without
    heard,     \* how far the last revocation got
    crossed    \* the file changed between the reloader's two reads

consentVars == <<file, cli, consents, memory, reloader, gen, heard, crossed>>
pollVars == <<turns, poll, usage, bars>>
usageVars == <<consentVars, pollVars>>

NoBars == MaxTurns + 1
NeverFetched == MaxTurns + 1
Nothing == MaxTurns + 1

KimiInit ==
    /\ file \in {"none", "on"} /\ cli = "idle" /\ consents = 0
    /\ memory = FALSE /\ gen = FALSE
    /\ reloader = [primed |-> FALSE, last |-> "none", saw |-> "none", step |-> "read"]
    /\ turns = 0
    /\ poll = [counted |-> Nothing, seen |-> Nothing, step |-> "arm"]
    /\ usage = [fetched |-> NeverFetched, cached |-> Nothing, thread |-> "none", reply |-> Nothing, asked |-> Nothing]
    /\ bars = NoBars /\ heard = "on" /\ crossed = FALSE
-----------------------------------------------------------------------------
(* set_and_persist, in a process of its own: its memory is not the daemon's. *)

\* The file changes: after the reloader's first read, its second reads something else.
Becomes(new) ==
    /\ file' = new
    /\ crossed' = (crossed \/ reloader.step = "load")

Enable ==
    /\ cli = "idle" /\ consents < MaxConsents
    /\ consents' = consents + 1 /\ cli' = "write"
    /\ Becomes("empty") /\ heard' = "on"
    /\ UNCHANGED <<memory, reloader, gen, pollVars>>

\* The write ends, or fails and leaves what there is.
WriteConsent ==
    /\ cli = "write" /\ cli' = "idle"
    /\ (Becomes("on") \/ UNCHANGED <<file, crossed>>)
    /\ UNCHANGED <<consents, memory, reloader, gen, heard, pollVars>>

Revoke ==
    /\ cli = "idle" /\ consents < MaxConsents
    /\ consents' = consents + 1
    /\ Becomes("none") /\ heard' = "removed"
    /\ UNCHANGED <<cli, memory, reloader, gen, pollVars>>
-----------------------------------------------------------------------------
(* ConsentReloader: two reads of the file, of which it remembers the first. *)

Ends(saw) == [primed |-> TRUE, last |-> saw, saw |-> saw, step |-> "read"]
Heard == heard' = IF heard = "removed" THEN "heard" ELSE heard

\* Mutant: a file that is gone is no change.
ReadUnlessGone ==
    /\ reloader.step = "read"
    /\ IF file # "none" /\ file # reloader.last
       THEN /\ reloader' = [reloader EXCEPT !.saw = file, !.step = "load"]
            /\ heard' = IF heard = "removed" THEN "looked" ELSE heard
       ELSE reloader' = Ends(file) /\ Heard
    /\ UNCHANGED <<file, cli, consents, memory, gen, crossed, pollVars>>

ReadConsent ==
    /\ reloader.step = "read"
    /\ IF (~reloader.primed /\ file # "none") \/ (reloader.primed /\ file # reloader.last)
       THEN /\ reloader' = [reloader EXCEPT !.saw = file, !.step = "load"]
            /\ heard' = IF heard = "removed" THEN "looked" ELSE heard
       ELSE reloader' = Ends(file) /\ Heard
    /\ UNCHANGED <<file, cli, consents, memory, gen, crossed, pollVars>>

\* load_into_memory: anything but a whole file with a yes is a no.
LoadConsent ==
    /\ reloader.step = "load"
    /\ memory' = (file = "on") /\ gen' = TRUE
    /\ reloader' = Ends(reloader.saw)
    /\ heard' = IF heard = "looked" THEN "heard" ELSE heard
    /\ UNCHANGED <<file, cli, consents, crossed, pollVars>>
-----------------------------------------------------------------------------
(* The supervisor's poll and the threads it starts.                        *)

Settle == turns < MaxTurns /\ turns' = turns + 1 /\ UNCHANGED <<consentVars, poll, usage, bars>>

\* A new refresh generation arms the fetch again.
Arm ==
    /\ poll.step = "arm" /\ poll' = [poll EXCEPT !.step = "parse"]
    /\ usage' = IF gen THEN [usage EXCEPT !.fetched = NeverFetched] ELSE usage
    /\ gen' = FALSE
    /\ UNCHANGED <<file, cli, consents, memory, reloader, heard, crossed, turns, bars>>

\* The sources are parsed when they changed, and their turns counted when there is
\* consent; otherwise the count remembered is none.
Parse ==
    /\ poll.step = "parse"
    /\ poll' = [counted |-> IF turns = poll.seen THEN poll.counted ELSE IF memory THEN turns ELSE 0,
                seen |-> turns, step |-> "fetch"]
    /\ UNCHANGED <<consentVars, turns, usage, bars>>

\* Mutant: what was fetched once is fetched.
FetchDueOnce == usage.thread = "none" /\ usage.fetched = NeverFetched

\* fetch_due: never while a fetch runs, and once per count of turns.
FetchDue == usage.thread = "none" /\ (usage.fetched = NeverFetched \/ poll.counted > usage.fetched)

MaybeRefresh ==
    /\ poll.step = "fetch" /\ poll' = [poll EXCEPT !.step = "merge"]
    /\ usage' = IF ~memory THEN [usage EXCEPT !.fetched = NeverFetched]
                ELSE IF FetchDue THEN [usage EXCEPT !.fetched = poll.counted, !.thread = "check"]
                ELSE usage
    /\ UNCHANGED <<consentVars, turns, bars>>

\* cached_rate_limits: what was kept is shown with consent only.
MergeUsage ==
    /\ poll.step = "merge" /\ poll' = [poll EXCEPT !.step = "arm"]
    /\ bars' = IF memory THEN usage.cached ELSE NoBars
    /\ heard' = IF heard = "heard" THEN "polled" ELSE heard
    /\ UNCHANGED <<file, cli, consents, memory, reloader, gen, crossed, turns, usage>>

\* The thread asks for consent again before it sends, and before it keeps.
FetchCheck ==
    /\ usage.thread = "check"
    /\ usage' = [usage EXCEPT !.thread = IF memory THEN "send" ELSE "keep", !.reply = Nothing]
    /\ UNCHANGED <<consentVars, turns, poll, bars>>

FetchAnswer ==
    /\ usage.thread = "send"
    /\ usage' \in {[usage EXCEPT !.thread = "keep", !.reply = r, !.asked = turns] : r \in {turns, Nothing}}
    /\ UNCHANGED <<consentVars, turns, poll, bars>>

FetchKeep ==
    /\ usage.thread = "keep"
    /\ usage' = [usage EXCEPT !.thread = "none",
                    !.cached = IF usage.reply # Nothing /\ memory THEN usage.reply ELSE @]
    /\ UNCHANGED <<consentVars, turns, poll, bars>>

Fetch == FetchCheck \/ FetchAnswer \/ FetchKeep
Poll == Arm \/ Parse \/ MaybeRefresh \/ MergeUsage
ReloadConsent == ReadConsent \/ LoadConsent

KimiNext == Enable \/ WriteConsent \/ Revoke \/ ReloadConsent \/ Settle \/ Poll \/ Fetch

\* The loop, the supervisor and a fetch go on; each of them ends by itself.
KimiFairness ==
    /\ WF_usageVars(ReloadConsent) /\ WF_usageVars(Poll) /\ WF_usageVars(Fetch) /\ WF_usageVars(WriteConsent)
-----------------------------------------------------------------------------
(* Properties.                                                             *)

\* Once the loop has looked at the file after the consent was taken back, nothing
\* is sent and soon nothing is shown, unless the file changed between its two reads
\* (ConsentReloader, maybe_refresh_usage).
ConsentIsHeard ==
    heard \in {"heard", "polled"} /\ ~crossed => ~memory /\ (heard = "polled" => bars = NoBars)

\* With consent, a fetch is made after the last turn has settled, although the count
\* of turns is remembered from when there was no consent, and however often consent
\* came and went before (fetch_due, emit_session_status).
UsageIsAsked == <>[](memory /\ turns = MaxTurns) => <>(usage.asked = MaxTurns)

\* "including revocation by deletion": what the loop has looked at is what it does.
RevocationIsHeard == heard = "heard" => ~memory
=============================================================================

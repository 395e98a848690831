------------------------------- MODULE Payloads -------------------------------
(***************************************************************************)
(* What the agents put into the payloads of their results, and what the    *)
(* orchestrator's handlers require: each handler builds the payload model  *)
(* of its task type before it does anything else, and a missing field is a *)
(* ValidationError, HTTP 500 to the sender.  A nested model is named by    *)
(* its own fields; optional fields and defaults are left out.              *)
(***************************************************************************)

ResultType ==
  {"email.classified", "dedup.result", "org.verified", "eligibility.result",
   "org.scored", "calendar.slot_found", "calendar.no_slots", "pa.decision",
   "email.sent", "rsvp.outcome"}

Requires(type) ==
  CASE type = "email.classified" ->
         {"email_id", "email_thread_id", "org_name", "ein", "reason",
          "contact_email", "received_at", "classifier_confidence"}
    [] type = "dedup.result" -> {"email_id", "is_duplicate", "is_merged"}
    [] type = "org.verified" ->
         {"pipeline_id", "ein", "verified", "confidence"}
    [] type = "eligibility.result" ->
         {"pipeline_id", "ein", "is_eligible", "appointment_count_90d",
          "has_urgency_signals", "escalate_to_pa"}
    [] type = "org.scored" ->
         {"pipeline_id", "ein", "priority_score", "people_scale",
          "wait_time_bump", "urgency_category", "confidence_bonus",
          "justification", "queue_position"}
    [] type = "calendar.slot_found" ->
         {"pipeline_id", "start", "end", "gcal_hold_id"}
    [] type = "calendar.no_slots" -> {"pipeline_id"}
    [] type = "pa.decision" -> {"pipeline_id", "decision", "decided_by"}
    [] type = "email.sent" -> {"pipeline_id", "template", "gmail_message_id"}
    [] type = "rsvp.outcome" -> {"pipeline_id", "outcome", "next_action"}

---------------------------------------------------------------------------
(* What each agent sends *)

EmailClassified ==
  {"email_id", "email_thread_id", "org_name", "ein", "reason",
   "urgency_signals", "contact_email", "received_at",
   "classifier_confidence", "raw_subject"}

DedupResult ==
  {"email_id", "pipeline_id", "is_duplicate", "is_merged", "message"}

OrgVerified ==
  {"pipeline_id", "ein", "verified", "confidence", "sources",
   "candid_profile_url", "cause_category", "candid_impact_summary",
   "pa_flag", "manual_mode", "from_cache"}

EligibilityResult ==
  {"pipeline_id", "ein", "is_eligible", "appointment_count_90d",
   "has_urgency_signals", "escalate_to_pa"}

OrgScored ==
  {"pipeline_id", "ein", "priority_score", "urgency", "impact",
   "reputation", "queue_bonus", "total"}

SlotFound ==
  {"pipeline_id", "ein", "start", "end", "gcal_hold_id", "display_ct"}

NoSlots == {"pipeline_id", "ein", "reason"}

PaDecision ==
  {"pipeline_id", "decision", "decided_by", "pa_notes", "rejection_reason"}

EmailSent == {"pipeline_id", "template", "recipient", "sent_at"}

RsvpOutcome ==
  {"pipeline_id", "outcome", "next_action", "gcal_event_id",
   "rsvp_received_at"}

Carries(type) ==
  CASE type = "email.classified" -> EmailClassified
    [] type = "dedup.result" -> DedupResult
    [] type = "org.verified" -> OrgVerified
    [] type = "eligibility.result" -> EligibilityResult
    [] type = "org.scored" -> OrgScored
    [] type = "calendar.slot_found" -> SlotFound
    [] type = "calendar.no_slots" -> NoSlots
    [] type = "pa.decision" -> PaDecision
    [] type = "email.sent" -> EmailSent
    [] type = "rsvp.outcome" -> RsvpOutcome

\* The handler gets past the construction of its payload model.
Accepted(type) == Requires(type) \subseteq Carries(type)
=============================================================================

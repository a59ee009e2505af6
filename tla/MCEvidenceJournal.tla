------------------------- MODULE MCEvidenceJournal -------------------------
(* EvidenceJournal on small sets of events and a short calendar.           *)
EXTENDS EvidenceJournal
=============================================================================

----------------------------- MODULE OpenScore ------------------------------
(***************************************************************************)
(* internal/provider/openscore: the verdict that one exchange with a       *)
(* scorer amounts to.  Over HTTP an exchange may end before it is sent,    *)
(* without a response, with another status than 2xx (a redirection         *)
(* included), or with a body that is too long or malformed; the local      *)
(* command may not start, fail, or write something malformed.  All of      *)
(* these are the verdict UNKNOWN with reason provider-unavailable,         *)
(* "OUTAGE" to the engine.                                                 *)
(***************************************************************************)
EXTENDS Policy

RemoteEnds == {"not sent", "no response", "other status", "too long", "malformed", "read"}
LocalEnds == {"not run", "malformed", "read"}

(* versionInfoFromResponse: a decision that is none of the four is an      *)
(* outage, and so is UNKNOWN if the scorer gives that reason for it.       *)
VersionInfoFromResponse(response) ==
    IF response.decision \notin {"ALLOW", "ASK", "DENY", "UNKNOWN"} THEN "OUTAGE"
    ELSE IF response.decision = "UNKNOWN" /\ response.unavailable THEN "OUTAGE"
    ELSE response.decision

GetPackageScore(end, response) ==
    IF end = "read" THEN VersionInfoFromResponse(response) ELSE "OUTAGE"

(* A verdict comes without scores, alerts or a date. *)
VerdictEvidence(verdict) ==
    [sc |-> 0, ov |-> 0, verdict |-> verdict, alerts |-> {}, age |-> NoDate]
=============================================================================

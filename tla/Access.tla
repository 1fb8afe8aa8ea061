-------------------------------- MODULE Access --------------------------------
(***************************************************************************)
(* Who gets through: the checks of an HTTP request from connection_handle   *)
(* (src/core/connection.c) and http_handle_request (src/protocols/http.c)   *)
(* in their order: the client's address, the credentials, the URL.         *)
(***************************************************************************)
EXTENDS Filter, Credentials

CONSTANTS Cases,    \* [ip, url, lists, auth, lines, given, rest]
          Chars     \* the characters of addresses, URLs and patterns

ASSUME CaseAssumption ==
    /\ "end" \notin Chars
    /\ \A c \in Cases :
         /\ c.ip \in Seq(Chars) /\ c.url \in Seq(Chars)
         /\ c.lists \in [{"ip", "url"} -> [{"white", "black"} -> Seq(Seq(Chars))]]
         /\ c.auth \in BOOLEAN
         /\ (c.lines = NoFile) \/ (c.lines \in Seq(Seq(Bytes)))
         /\ c.given \in Seq(Bytes) /\ c.rest \in Seq(0..Pad)

VARIABLES pc,     \* the check that is due
          case    \* the request and the configuration, fixed

vars == <<filterVars, credVars, pc, case>>

Init ==
    /\ case \in Cases
    /\ FilterInit(case.lists)
    /\ CredInit(case.lines)
    /\ pc = "start"

\* auth_init is done when connections are accepted.
AcceptConnection ==
    /\ pc = "start" /\ Loaded
    /\ pc' = "ip"
    /\ Check("ip", case.ip)
    /\ UNCHANGED <<credVars, case>>

\* The filter's verdict on the address.
AddressChecked ==
    /\ pc = "ip" /\ fpc = "done"
    /\ pc' = IF blocked THEN "refused" ELSE "auth"
    /\ fpc' = "idle"
    /\ UNCHANGED <<kind, str, lists, colour, node, p, s, star, ss, blocked, credVars, case>>

\* 407 without credentials; else they are decoded with all that follows them.
ReadHeader ==
    /\ pc = "auth" /\ case.auth
    /\ IF case.given = <<>>
       THEN pc' = "refused" /\ UNCHANGED credVars
       ELSE pc' = "verify" /\ Decode(Encoded(case.given) \o case.rest)
    /\ UNCHANGED <<filterVars, case>>

Verify ==
    /\ pc = "verify" /\ dpc \in {"done", "failed"}
    /\ Verified \/ Overflows
    /\ pc' = "url" /\ Check("url", case.url)
    /\ UNCHANGED <<credVars, case>>

\* 407, or the end of the process.
Refuse ==
    /\ pc = "verify" /\ dpc \in {"done", "failed"}
    /\ \/ (~Verified \/ Overflows) /\ pc' = "refused"
       \/ Overflows /\ pc' = "crashed"
    /\ UNCHANGED <<filterVars, credVars, case>>

NoAuth ==
    /\ pc = "auth" /\ ~case.auth
    /\ pc' = "url" /\ Check("url", case.url)
    /\ UNCHANGED <<credVars, case>>

UrlChecked ==
    /\ pc = "url" /\ fpc = "done"
    /\ pc' = IF blocked THEN "refused" ELSE "admitted"
    /\ UNCHANGED <<filterVars, credVars, case>>

Step ==
    \/ AcceptConnection \/ AddressChecked
    \/ ReadHeader \/ Verify \/ Refuse \/ NoAuth \/ UrlChecked
    \/ FilterStep /\ UNCHANGED <<credVars, pc, case>>
    \/ CredStep /\ UNCHANGED <<filterVars, pc, case>>

Over == pc \in {"admitted", "refused", "crashed"} /\ UNCHANGED vars

Next == Step \/ Over

Spec == Init /\ [][Next]_vars /\ WF_vars(Step)

-----------------------------------------------------------------------------
(* Properties.                                                             *)

\* The user database the file stands for; of a user name or password the first
\* FieldSize - 1 bytes count.
Accounts ==
    IF case.lines = NoFile THEN {DefaultUser}
    ELSE {Entry(case.lines[n]) : n \in DOMAIN case.lines} \ {<<>>}

\* What comes after the credentials cannot be mistaken for them: they end in
\* padding, or no character of the alphabet follows in the request.
Delimited == (Len(case.given) % 3 # 0) \/ (\A n \in DOMAIN case.rest : case.rest[n] \in {Skipped, Pad})

\* The output never exceeds its buffer, the terminating zero included.
\* Credentials that are delimited are decoded as they were encoded, whatever
\* their bytes, and are refused as too long only near the size of the buffer.
DecodedRight ==
    /\ Len(output) < OutputSize
    /\ (Delimited /\ dpc \in {"done", "failed"}) =>
        IF dpc = "done" THEN output = case.given ELSE Len(case.given) >= OutputSize - 1

\* What base64_decode and strcpy are made for: credentials that end in padding
\* or before anything of the alphabet, and that have room in the buffers.
Proper == Delimited /\ FitsFields(case.given)

\* A request is admitted exactly if its address and its URL pass the lists and,
\* when authentication is on, its credentials name an account that auth_init did
\* not lose; no order of list entries and no wildcard makes a difference.  This
\* is for credentials that are delimited and have room in the buffers for user
\* name and password; only others can end the process.
AdmittedRight ==
    /\ pc = "admitted" =>
         /\ ~ShouldBlock("ip", case.ip) /\ ~ShouldBlock("url", case.url)
         /\ (case.auth /\ Proper) => (Split(case.given) \in Accounts)
    /\ (pc = "refused" /\ Proper /\ Len(case.given) < OutputSize - 1) =>
         \/ ShouldBlock("ip", case.ip) \/ ShouldBlock("url", case.url)
         \/ case.auth /\ Split(case.given) \notin Accounts \ lost
    /\ pc = "crashed" => ~Proper

\* Every request is decided: the matching loop and the decoder end.
Decided == <>(pc \in {"admitted", "refused", "crashed"})

\* "Format: username:password": who sends a user name and password of the
\* users file is not refused for them, if auth_init had memory for all of them.
AccountsAdmitted ==
    (dpc \in {"done", "failed"} /\ Split(case.given) \in Accounts \ lost) => Verified
==============================================================================

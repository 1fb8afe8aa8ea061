----------------------------- MODULE Credentials -----------------------------
(***************************************************************************)
(* Basic authentication of src/auth/auth.c: the users that auth_init reads, *)
(* base64_decode as the loop it is, the split at the first colon, and       *)
(* auth_verify.                                                            *)
(*                                                                         *)
(* The decoder reads from the credentials to the end of the request.  Its   *)
(* input is a sequence of sextets 0..63, Skipped for the characters outside *)
(* the alphabet and Pad for "=".  Bytes are 0..255.                         *)
(***************************************************************************)
EXTENDS Naturals, Sequences, FiniteSets

CONSTANTS OutputSize,    \* sizeof(decoded)
          FieldSize,     \* sizeof(username), sizeof(password)
          DefaultUser,   \* admin:admin, as <<user, password>>
          MaxLost        \* bound on the accounts that auth_init loses

Bytes == 0..255

ASSUME OutputAssumption == OutputSize \in Nat \ {0}
ASSUME FieldAssumption == FieldSize \in Nat \ {0} /\ MaxLost \in Nat
ASSUME UserAssumption == DefaultUser \in Seq(Bytes) \X Seq(Bytes)

Skipped == 64
Pad == 65
Colon == 58
Hash == 35

VARIABLES
    lines,     \* the lines of the users file not read yet, NoFile without it
    users,     \* g_users, the last one read first
    lost,      \* accounts auth_init had no memory for, or stored unterminated
    dpc,       \* "idle", "decode", "done" or "failed"
    input,     \* what is left of the request
    buf,       \* buf and i
    output     \* output and output_len

credVars == <<lines, users, lost, dpc, input, buf, output>>

NoFile == <<<<256>>>>   \* no line holds this character

CredInit(f) ==
    /\ lines = f /\ users = <<>> /\ lost = {}
    /\ dpc = "idle" /\ input = <<>> /\ buf = <<>> /\ output = <<>>

\* The user and the password of a line or of decoded credentials, <<>> when
\* there is no colon.  A zero byte ends the string.
Split(b) ==
    LET zeros == {n \in DOMAIN b : b[n] = 0}
        size == IF zeros = {} THEN Len(b) ELSE (CHOOSE n \in zeros : \A m \in zeros : n <= m) - 1
        colons == {n \in 1..size : b[n] = Colon}
        c == CHOOSE n \in colons : \A m \in colons : n <= m
    IN  IF colons = {} THEN <<>> ELSE <<SubSeq(b, 1, c - 1), SubSeq(b, c + 1, size)>>

-----------------------------------------------------------------------------
(* auth_init.                                                              *)

\* There is no memory for account a, or no room in it for the terminating zero:
\* then no credentials of the right size equal it.
Loses(a) ==
    /\ Cardinality(lost) < MaxLost /\ lost' = lost \cup {a}
    /\ UNCHANGED users

UseDefault ==
    /\ lines = NoFile /\ lines' = <<>>
    /\ \/ users' = <<DefaultUser>> /\ UNCHANGED lost
       \/ Loses(DefaultUser)
    /\ UNCHANGED <<dpc, input, buf, output>>

Account(line) == IF line # <<>> /\ line[1] = Hash THEN <<>> ELSE Split(line)

\* The account of a line as strncpy stores it, <<>> without one.
Cut(part) == SubSeq(part, 1, IF Len(part) < FieldSize THEN Len(part) ELSE FieldSize - 1)
Entry(line) ==
    LET a == Account(line) IN IF a = <<>> THEN <<>> ELSE <<Cut(a[1]), Cut(a[2])>>

\* A line with a colon adds a user in front; comments and others are skipped.
ReadLine ==
    /\ lines # NoFile /\ lines # <<>> /\ lines' = Tail(lines)
    /\ LET a == Entry(Head(lines))
       IN \/ users' = (IF a = <<>> THEN users ELSE <<a>> \o users) /\ UNCHANGED lost
          \/ a # <<>> /\ Loses(a)
    /\ UNCHANGED <<dpc, input, buf, output>>

Loaded == lines = <<>>

-----------------------------------------------------------------------------
(* base64_decode.                                                          *)

Decode(x) ==
    /\ dpc = "idle" /\ Loaded
    /\ dpc' = "decode" /\ input' = x /\ buf' = <<>> /\ output' = <<>>
    /\ UNCHANGED <<lines, users, lost>>

\* Characters outside the alphabet are passed over.
SkipCharacter ==
    /\ dpc = "decode" /\ input # <<>> /\ Head(input) = Skipped
    /\ input' = Tail(input)
    /\ UNCHANGED <<lines, users, lost, dpc, buf, output>>

First(b) == (b[1] * 4 + b[2] \div 16) % 256
Second(b) == (b[2] * 16 + b[3] \div 4) % 256
Third(b) == (b[3] * 64 + b[4]) % 256

\* The output has no room for n more bytes and a terminating zero.
Full(n) == Len(output) + n >= OutputSize

TakeSextet ==
    /\ dpc = "decode" /\ input # <<>> /\ Head(input) < Skipped
    /\ input' = Tail(input)
    /\ LET b == Append(buf, Head(input))
       IN  IF Len(b) < 4 THEN buf' = b /\ UNCHANGED <<dpc, output>>
           ELSE IF Full(3) THEN dpc' = "failed" /\ buf' = b /\ UNCHANGED output
           ELSE buf' = <<>> /\ output' = output \o <<First(b), Second(b), Third(b)>> /\ UNCHANGED dpc
    /\ UNCHANGED <<lines, users, lost>>

\* Faulty variant: a lone second byte is dropped.
RemainderShort(b) == IF Len(b) >= 2 THEN <<First(b)>> ELSE <<>>

\* The bytes in a last group of less than four sextets.
Remainder(b) ==
    CASE Len(b) = 2 -> <<First(b)>>
      [] Len(b) = 3 -> <<First(b), Second(b)>>
      [] OTHER -> <<>>

\* At "=" or at the end of the request.
DecodeEnds ==
    /\ dpc = "decode" /\ (IF input = <<>> THEN TRUE ELSE Head(input) = Pad)
    /\ IF buf # <<>> /\ Full(Len(buf))
       THEN dpc' = "failed" /\ UNCHANGED output
       ELSE dpc' = "done" /\ output' = output \o Remainder(buf)
    /\ UNCHANGED <<lines, users, lost, input, buf>>

\* The user and the password that b holds have room in their buffers.
FitsFields(b) == Split(b) # <<>> => \A k \in 1..2 : Len(Split(b)[k]) < FieldSize

\* auth_parse_basic finds a colon and auth_verify the pair.
Verified == dpc = "done" /\ Split(output) # <<>> /\ \E n \in DOMAIN users : users[n] = Split(output)

\* strcpy runs over the end of username or password: whatever comes then is
\* undefined.
Overflows == dpc = "done" /\ ~FitsFields(output)

CredStep == UseDefault \/ ReadLine \/ SkipCharacter \/ TakeSextet \/ DecodeEnds

-----------------------------------------------------------------------------
(* What is to be decoded.                                                  *)

\* Base64: sextet k of bytes b, counted from 0, and all of them with padding.
Sextet(b, k) ==
    LET q == 3 * (k \div 4)
        B(n) == IF n <= Len(b) THEN b[n] ELSE 0
    IN  CASE k % 4 = 0 -> B(q + 1) \div 4
          [] k % 4 = 1 -> (B(q + 1) % 4) * 16 + B(q + 2) \div 16
          [] k % 4 = 2 -> (B(q + 2) % 16) * 4 + B(q + 3) \div 64
          [] OTHER     -> B(q + 3) % 64

Padding(b) == [n \in 1..((3 - (Len(b) % 3)) % 3) |-> Pad]
Encoded(b) == [n \in 1..((4 * Len(b) + 2) \div 3) |-> Sextet(b, n - 1)] \o Padding(b)

==============================================================================

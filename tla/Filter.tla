-------------------------------- MODULE Filter --------------------------------
(***************************************************************************)
(* The content filter of src/filter/filter.c: lists of patterns with * and  *)
(* ?, matched by a loop that remembers the last star, and the rules that    *)
(* combine the white list and the black list of URLs and of addresses.     *)
(*                                                                         *)
(* A string is a sequence of characters; "end" is its terminating zero.    *)
(* The filter's mutex makes a check atomic for other threads, so that only *)
(* one is modelled; filter_init runs before it.                            *)
(***************************************************************************)
EXTENDS Naturals, Sequences

VARIABLES
    fpc,          \* "idle", or where the check is
    kind,         \* "url" or "ip"
    str,          \* the string that is checked
    lists,        \* [white, black], for each kind
    colour,       \* the list that is searched
    node,         \* the node in it
    p, s,         \* positions in pattern and string
    star, ss,     \* the last star and where its match ends, 0 for no star
    blocked       \* the verdict of the last check

filterVars == <<fpc, kind, str, lists, colour, node, p, s, star, ss, blocked>>
matchVars == <<p, s, star, ss>>

List == lists[kind][colour]
Pattern == List[node]
At(x, n) == IF n <= Len(x) THEN x[n] ELSE "end"

FilterInit(l) ==
    /\ fpc = "idle" /\ lists = l
    /\ kind = "ip" /\ str = <<>> /\ colour = "white" /\ node = 1
    /\ p = 1 /\ s = 1 /\ star = 0 /\ ss = 1
    /\ blocked = FALSE

\* The next thing to do is at place q.
Proceed(q) == fpc' = q /\ UNCHANGED <<kind, str, lists, colour, node, blocked>>

Conclude(b) == fpc' = "done" /\ blocked' = b /\ UNCHANGED <<kind, str, lists, colour, node>>

-----------------------------------------------------------------------------
(* filter_check_url and filter_check_ip.                                   *)

\* Look at the white list first if there is one.
Check(k, x) ==
    /\ fpc = "idle"
    /\ kind' = k /\ str' = x
    /\ colour' = IF lists[k]["white"] # <<>> THEN "white" ELSE "black"
    /\ node' = 1
    /\ fpc' = "list"
    /\ UNCHANGED <<lists, matchVars, blocked>>

\* check_pattern_list takes up the next node.
TryPattern ==
    /\ fpc = "list" /\ node <= Len(List)
    /\ Proceed("match")
    /\ p' = 1 /\ s' = 1 /\ star' = 0 /\ ss' = 1

\* Faulty variant: an address that the white list lacks may still pass.
NotFoundLenient ==
    /\ fpc = "list" /\ node > Len(List)
    /\ IF colour = "white"
       THEN /\ colour' = "black" /\ node' = 1
            /\ UNCHANGED <<fpc, kind, str, lists, blocked>>
       ELSE Conclude(FALSE)
    /\ UNCHANGED matchVars

\* No pattern of the list matches.
NotFound ==
    /\ fpc = "list" /\ node > Len(List)
    /\ IF colour = "white" /\ kind = "url"
       THEN /\ colour' = "black" /\ node' = 1
            /\ UNCHANGED <<fpc, kind, str, lists, blocked>>
       ELSE Conclude(colour = "white")
    /\ UNCHANGED matchVars

\* pattern_match has returned found.
Matched(found) ==
    IF found THEN Conclude(colour = "black")
    ELSE /\ fpc' = "list" /\ node' = node + 1
         /\ UNCHANGED <<kind, str, lists, colour, blocked>>

-----------------------------------------------------------------------------
(* pattern_match.                                                          *)

MatchStar ==
    /\ fpc = "match" /\ s <= Len(str) /\ At(Pattern, p) = "*"
    /\ star' = p /\ p' = p + 1 /\ ss' = s
    /\ Proceed("match") /\ UNCHANGED s

MatchCharacter ==
    /\ fpc = "match" /\ s <= Len(str)
    /\ At(Pattern, p) # "*" /\ At(Pattern, p) \in {"?", str[s]}
    /\ p' = p + 1 /\ s' = s + 1
    /\ Proceed("match") /\ UNCHANGED <<star, ss>>

Mismatch == fpc = "match" /\ s <= Len(str) /\ At(Pattern, p) \notin {"*", "?", str[s]}

\* Faulty variant: the star takes no further character.
MatchBackSame ==
    /\ Mismatch /\ star # 0
    /\ p' = star + 1 /\ s' = ss
    /\ Proceed("match") /\ UNCHANGED <<star, ss>>

\* Faulty variant: the star takes all that was matched since.
MatchBackFar ==
    /\ Mismatch /\ star # 0
    /\ p' = star + 1 /\ s' = s + 1 /\ ss' = s + 1
    /\ Proceed("match") /\ UNCHANGED star

\* The last star takes one more character.
MatchBack ==
    /\ Mismatch /\ star # 0
    /\ p' = star + 1 /\ s' = ss + 1 /\ ss' = ss + 1
    /\ Proceed("match") /\ UNCHANGED star

MatchFails ==
    /\ Mismatch /\ star = 0
    /\ Matched(FALSE)
    /\ UNCHANGED matchVars

\* The string has ended: stars may be left in the pattern.
MatchRest ==
    /\ fpc = "match" /\ s > Len(str) /\ At(Pattern, p) = "*"
    /\ p' = p + 1
    /\ Proceed("match") /\ UNCHANGED <<s, star, ss>>

MatchEnds ==
    /\ fpc = "match" /\ s > Len(str) /\ At(Pattern, p) # "*"
    /\ Matched(At(Pattern, p) = "end")
    /\ UNCHANGED matchVars

FilterStep ==
    \/ TryPattern \/ NotFound
    \/ MatchStar \/ MatchCharacter \/ MatchBack \/ MatchFails \/ MatchRest \/ MatchEnds

-----------------------------------------------------------------------------
(* What the filter is to compute.                                          *)

\* Pattern x matches string y: ? is any character and * any characters.  The
\* rest of x from i on matches the rest of y from each j in starts[i] on.
Matches(x, y) ==
    LET Positions == 1..(Len(y) + 1)
        starts[i \in 1..(Len(x) + 1)] ==
          IF i > Len(x) THEN {Len(y) + 1}
          ELSE IF x[i] = "*" THEN {j \in Positions : \E n \in starts[i + 1] : j <= n}
          ELSE {j \in Positions : j <= Len(y) /\ x[i] \in {"?", y[j]} /\ j + 1 \in starts[i + 1]}
    IN  1 \in starts[1]

In(list, y) == \E n \in DOMAIN list : Matches(list[n], y)

\* The white list of URLs makes exceptions to the black list; a white list of
\* addresses replaces it.
ShouldBlock(k, y) ==
    LET l == lists[k]
    IN  IF k = "ip" /\ l["white"] # <<>> THEN ~In(l["white"], y)
        ELSE In(l["black"], y) /\ ~In(l["white"], y)

\* At every step of the loop the positions are within the strings and their
\* terminating zeros, and the pattern matches the string iff the rest of the
\* pattern matches the rest of the string, or a longer match of the last star
\* lets it: giving up earlier stars loses no match.
MatchInvariant ==
    fpc = "match" =>
        /\ p \in 1..(Len(Pattern) + 1) /\ s \in 1..(Len(str) + 1)
        /\ star # 0 => (Pattern[star] = "*" /\ star < p /\ ss <= s)
        /\ Matches(Pattern, str) <=>
            \/ Matches(SubSeq(Pattern, p, Len(Pattern)), SubSeq(str, s, Len(str)))
            \/ star # 0 /\ \E n \in ss + 1..Len(str) + 1 :
                 Matches(SubSeq(Pattern, star + 1, Len(Pattern)), SubSeq(str, n, Len(str)))

==============================================================================

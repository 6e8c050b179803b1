------------------------------ MODULE LoginState ------------------------------
(***************************************************************************)
(* Where a login takes the browser back to.  The page a visitor asked for  *)
(* travels from the login page's return argument through its form to the   *)
(* state argument of the provider's call-back, a string that the server    *)
(* makes verifiable, verifies and cuts up again, keeping nothing itself:   *)
(* process_login_page_get, process_login_page_post and                     *)
(* process_code_response in src/appauth.cpp, src/openidconnect.c.          *)
(*                                                                         *)
(* A string is a sequence of characters, of which only "/" and "." are     *)
(* told apart from the others: they are what the code looks for.           *)
(***************************************************************************)
EXTENDS Naturals, Sequences

CONSTANTS PathChars,  \* the characters that occur
          Slash, Dot, \* two of them
          Times,      \* what timefn_formattimefromunixtime_str can return
          Paths,      \* the return arguments that visitors ask with
          HashChars,  \* how much of the hash is kept (16)
          Hash(_)     \* the kept part of the hex SHA-256 of the client secret
                      \* and the given string

ASSUME PathCharsAssumption == Slash \in PathChars /\ Dot \in PathChars /\ Slash # Dot
ASSUME TimesAssumption == Times \subseteq Seq(PathChars \ {Dot})
ASSUME PathsAssumption == Paths \subseteq Seq(PathChars)
ASSUME HashCharsAssumption == HashChars \in Nat

VARIABLES asked,    \* the return argument of the request for the login page
          page,     \* REDIRECT_URL in the form that was served
          state,    \* the state argument sent to the provider
          landed,   \* the Location of the call-back's answer
          phase     \* "start", "form", "provider", "landed" or "refused"

loginVars == <<asked, page, state, landed, phase>>

-----------------------------------------------------------------------------
(* strrchr(s, '.'): the place of the last dot, 0 if there is none.         *)
Dots(s) == {i \in 1..Len(s) : s[i] = Dot}

LastDot(s) == IF Dots(s) = {} THEN 0
              ELSE CHOOSE i \in Dots(s) : \A j \in Dots(s) : j <= i

Before(s, i) == SubSeq(s, 1, i - 1)
After(s, i) == SubSeq(s, i + 1, Len(s))

openidconnect_create_verifyable_string(salt) == salt \o <<Dot>> \o Hash(salt)

(* strncmp over HashChars characters: what follows the last dot begins     *)
(* with the hash of what precedes it, and may go on.                       *)
verify_first_dot(input) ==
    LET dot == IF Dots(input) = {} THEN 0
               ELSE CHOOSE i \in Dots(input) : \A j \in Dots(input) : i <= j
        given == After(input, dot)
    IN  /\ dot # 0
        /\ Len(given) >= HashChars
        /\ SubSeq(given, 1, HashChars) = Hash(Before(input, dot))

openidconnect_verify_string(input) ==
    LET dot == LastDot(input)
        given == After(input, dot)
    IN  /\ dot # 0
        /\ Len(given) >= HashChars
        /\ SubSeq(given, 1, HashChars) = Hash(Before(input, dot))

(* The part before the second last dot; the whole is given up when there   *)
(* are fewer than two (the caller then takes the empty string).            *)
truncate_at_last_dot(str) == Before(str, LastDot(str))

truncate_at_second_last_dot(str) ==
    LET front == Before(str, LastDot(str))
    IN  IF LastDot(str) = 0 \/ LastDot(front) = 0 THEN <<>>
        ELSE Before(front, LastDot(front))

(* query_string[7] == '/' && query_string[8] != '/'                        *)
OnThisSite(p) == Len(p) >= 1 /\ p[1] = Slash /\ (Len(p) = 1 \/ p[2] # Slash)

Home == <<Slash>>

ReturnTo(p) == IF OnThisSite(p) THEN p ELSE Home

(* redirect_to_len > 4                                                     *)
SendTo(redirect_to) == IF Len(redirect_to) > 4 THEN redirect_to ELSE Home

(* The strings that logins make verifiable.                                *)
Salt(redirect_to, time) == SendTo(redirect_to) \o <<Dot>> \o time

(* Hexadecimal digits are not dots.                                        *)
ASSUME HashAssumption ==
    \A p \in Paths, time \in Times :
        Hash(Salt(ReturnTo(p), time)) \in [1..HashChars -> PathChars \ {Dot}]

-----------------------------------------------------------------------------
LoginInit == /\ asked \in Paths
        /\ page = <<>> /\ state = <<>> /\ landed = <<>>
        /\ phase = "start"

process_login_page_get == /\ phase = "start"
                          /\ page' = ReturnTo(asked)
                          /\ phase' = "form"
                          /\ UNCHANGED <<asked, state, landed>>

process_login_page_post ==
    /\ phase = "form"
    /\ \E time \in Times : state' = openidconnect_create_verifyable_string(Salt(page, time))
    /\ phase' = "provider"
    /\ UNCHANGED <<asked, page, landed>>

(* The call-back, repeated as often as the browser likes: the server keeps *)
(* no record of the states it has handed out.                              *)
process_code_response ==
    /\ phase \in {"provider", "landed", "refused"}
    /\ IF openidconnect_verify_string(state)
       THEN landed' = truncate_at_second_last_dot(state) /\ phase' = "landed"
       ELSE phase' = "refused" /\ UNCHANGED landed
    /\ UNCHANGED <<asked, page, state>>

LoginNext == process_login_page_get \/ process_login_page_post \/ process_code_response

LoginSpec == LoginInit /\ [][LoginNext]_loginVars

-----------------------------------------------------------------------------
(* A login is never refused for its own state argument.                    *)
OwnStateVerifies == phase # "refused"

(* The browser lands on the page it asked for, whatever dots the page's    *)
(* name holds; a name of at most four characters, or of another site, goes *)
(* to the home page.                                                       *)
LandsWhereAsked ==
    phase = "landed" =>
        landed = IF OnThisSite(asked) /\ Len(asked) > 4 THEN asked ELSE Home
=============================================================================

------------------------------ MODULE Template ------------------------------
(***************************************************************************)
(* The login and logout pages: TemplateEngine::Render with Trim and        *)
(* IsValidVariableName in src/simpletemplate.hpp, and its two uses one     *)
(* after the other in application_login_page_get_content                   *)
(* (src/application.cpp) and process_login_page_get (src/appauth.cpp).     *)
(*                                                                         *)
(* A template's text is a sequence of characters; variables are a function *)
(* from names to values.                                                   *)
(***************************************************************************)
EXTENDS Naturals, Sequences, SequencesExt, Functions

CONSTANTS TemplateTexts,   \* the files that a site may have
          Initials,        \* the letters, and "_"
          DigitChars,      \* the digits
          SiteValues,      \* what the variables of the site may be
          PageValues       \* what the variables of a request may be

(* A site's texts neither hold markup of templates nor are part of any     *)
(* together with what stands before or after them.                         *)
Plain(value) ==
    /\ value # <<>>
    /\ value[1] \notin {"%", ">"} /\ Last(value) \notin {"<", "%"}
    /\ \A i \in 2..Len(value) : <<value[i - 1], value[i]>> \notin {<<"<", "%">>, <<"%", ">">>}

ASSUME TextsAssumption ==
    /\ TemplateTexts \subseteq Seq(STRING)
    /\ \A vars \in SiteValues \cup PageValues :
          \A name \in DOMAIN vars : vars[name] \in Seq(STRING)

ASSUME TemplateAssumption ==
    /\ (Initials \cup DigitChars) \cap {"<", "%", ">", " "} = {}
    /\ Initials \cap DigitChars = {}
    /\ \A vars \in SiteValues : \A name \in DOMAIN vars : Plain(vars[name])

VARIABLES template,   \* the text of the file
          siteVars,   \* m_variables of application_login_page
          pageVars    \* m_variables of the engine made for a request

templateVars == <<template, siteVars, pageVars>>

-----------------------------------------------------------------------------
(* find(pair, from): the first place of two characters, Len + 1 for npos.  *)
FindPair(text, c, d, from) ==
    LET places == {i \in from..(Len(text) - 1) : text[i] = c /\ text[i + 1] = d}
    IN  IF places = {} THEN Len(text) + 1 ELSE CHOOSE i \in places : \A j \in places : i <= j

Trim(value) ==
    LET inked == {i \in DOMAIN value : value[i] # " "}
    IN  IF inked = {} THEN <<>>
        ELSE SubSeq(value, CHOOSE i \in inked : \A j \in inked : i <= j,
                           CHOOSE i \in inked : \A j \in inked : j <= i)

IsValidVariableName(name) ==
    /\ name # <<>> /\ name[1] \in Initials
    /\ ToSet(name) \subseteq Initials \cup DigitChars

(* What stands for text[start..end] with the variables vars: the value, or *)
(* the expression as it is.                                                *)
Expression(text, start, end, variables) ==
    LET name == Trim(SubSeq(text, start + 2, end - 1))
    IN  IF IsValidVariableName(name) /\ name \in DOMAIN variables
        THEN variables[name]
        ELSE SubSeq(text, start, end + 1)

(* leaveUnknown is true, as everywhere in the server.                      *)
Render(text, variables) ==
    LET from[position \in 1..(Len(text) + 1)] ==
          LET start == FindPair(text, "<", "%", position)
              end   == FindPair(text, "%", ">", start + 2)
          IN  IF start > Len(text) \/ end > Len(text) THEN SubSeq(text, position, Len(text))
              ELSE SubSeq(text, position, start - 1)
                   \o Expression(text, start, end, variables) \o from[end + 2]
    IN  from[1]

(* The login page: the site's variables first, and those of the request in *)
(* what comes of that.                                                     *)
login_page_swapped == Render(Render(template, pageVars), siteVars)

login_page == Render(Render(template, siteVars), pageVars)

-----------------------------------------------------------------------------
TemplateInit == /\ template \in TemplateTexts
                /\ siteVars \in SiteValues /\ pageVars \in PageValues

NoVariables == [name \in {} |-> <<>>]

(* The two renderings of the login page are one: the values of a request,  *)
(* among them the return path that the visitor chose, go where the file    *)
(* says and nowhere else, and come out as they are, markup and all.        *)
(* Nothing else of the file changes, however broken its markup is.         *)
TwoRenderingsAreOne ==
    /\ login_page = Render(template, [name \in DOMAIN siteVars \cup DOMAIN pageVars |->
                                         IF name \in DOMAIN siteVars THEN siteVars[name]
                                                                     ELSE pageVars[name]])
    /\ Render(template, NoVariables) = template
=============================================================================

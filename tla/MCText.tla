------------------------------- MODULE MCText -------------------------------
(* The parts of the server that take strings apart and put them together,  *)
(* which share no state: a behaviour is the work of one of them, named by  *)
(* job, on one of its inputs, while the others stay as they are.           *)
EXTENDS Cookies, LoginState, Paths, ContentDisposition, Template, Sha256

CONSTANT MaxHeader   \* the longest Cookie header

VARIABLE job

(* Every Cookie header of at most MaxHeader characters.                    *)
MCHeaders == UNION {[1..n -> Chars] : n \in 0..MaxHeader}

(* Every return argument of at most five characters; a hash of two digits  *)
(* tells strings of different shapes apart.                                *)
MCPaths == UNION {[1..n -> {"/", ".", "x"}] : n \in 0..5}

MCTimes == {<<"x">>, <<"y", "x">>}

MCHash(s) ==
    LET odd(n) == IF n % 2 = 0 THEN "x" ELSE "y"
    IN  <<odd(Len(s)), odd(Len(SelectSeq(s, LAMBDA c : c = ".")))>>

(* Every path of at most six characters, with digits of base two, escapes  *)
(* for a slash, a per cent sign, a digit and a letter, and a long that is  *)
(* as wide as an int.                                                      *)
MCRaws == UNION {[1..n -> {"/", "%", "0", "1", "-", "x"}] : n \in 0..6}

MCDigits == <<"0", "1">>

MCCharOf == <<"/", "%", "0", "x">>

(* A type and up to two attributes with values of up to two characters;    *)
(* "n" is a beginning of the name that is asked for, "n" "x".              *)
MCAttributes ==
    [name : {<<"n">>, <<"n", "x">>, <<"x">>}, quoted : {TRUE},
     value : UNION {[1..n -> Marks \cup {"x"}] : n \in 0..2}]
    \cup [name : {<<"n">>, <<"n", "x">>, <<"x">>}, quoted : {FALSE}, value : {<<>>, <<"x">>}]

MCType == [name |-> <<"x">>, value |-> <<>>, quoted |-> FALSE]

MCAttributeLists ==
    {<<MCType>> \o list :
        list \in UNION {[1..n -> MCAttributes] : n \in 0..2}}

MCAsked == <<"n", "x">>

(* Files of up to four pieces, with a variable of the site, one of the     *)
(* request, an unknown one, an expression that is no name, and markup that *)
(* is broken in every way.                                                 *)
MCPieces == {<<"<", "%", "V", "%", ">">>, <<"<", "%", " ", "R", " ", "%", ">">>,
             <<"<", "%", "U", "%", ">">>, <<"<", "%", "1", "%", ">">>,
             <<"<">>, <<"%">>, <<">">>, <<"V">>, <<"R">>, <<" ">>}

MCTemplateTexts == {FlattenSeq(pieces) : pieces \in UNION {[1..n -> MCPieces] : n \in 0..4}}

MCSiteValues == {<<"V">> :> <<"x", "%", "x">>, <<"V">> :> <<"R", " ">>}

MCPageValues ==
    {<<"R">> :> value : value \in {<<>>, <<"<", "%", "V", "%", ">">>, <<"<", "%">>, <<">">>}}

(* The others' states while one is at work.                                *)
IdleCookies == header = <<>> /\ Init
IdleLogin == asked = <<>> /\ LoginInit
IdlePath == raw = <<>>
IdleDisposition == attributes = <<MCType>>
IdleTemplate == template = <<>> /\ siteVars = NoVariables /\ pageVars = NoVariables
IdleSha == data = [i \in 1..BlockLength |-> 1] /\ SHA256_Init

TextInit ==
    \/ job = "cookies" /\ Init /\ IdleLogin /\ IdlePath /\ IdleDisposition /\ IdleTemplate /\ IdleSha
    \/ job = "login" /\ IdleCookies /\ LoginInit /\ IdlePath /\ IdleDisposition /\ IdleTemplate /\ IdleSha
    \/ job = "path" /\ IdleCookies /\ IdleLogin /\ PathInit /\ IdleDisposition /\ IdleTemplate /\ IdleSha
    \/ job = "part" /\ IdleCookies /\ IdleLogin /\ IdlePath /\ DispositionInit /\ IdleTemplate /\ IdleSha
    \/ job = "page" /\ IdleCookies /\ IdleLogin /\ IdlePath /\ IdleDisposition /\ TemplateInit /\ IdleSha
    \/ job = "hash" /\ IdleCookies /\ IdleLogin /\ IdlePath /\ IdleDisposition /\ IdleTemplate /\ SHA256_Init

TextNext ==
    /\ \/ job = "cookies" /\ Next /\ UNCHANGED <<loginVars, shaVars>>
       \/ job = "login" /\ LoginNext /\ UNCHANGED <<vars, shaVars>>
       \/ job = "hash" /\ ShaNext /\ UNCHANGED <<vars, loginVars>>
    /\ UNCHANGED <<job, raw, attributes, templateVars>>

TextSpec == TextInit /\ [][TextNext]_<<job, vars, loginVars, raw, attributes, templateVars, shaVars>>
=============================================================================

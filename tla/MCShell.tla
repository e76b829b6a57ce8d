------------------------------ MODULE MCShell -------------------------------
(* Every line of up to MaxTokens tokens is parsed; the ones of up to        *)
(* MaxRun tokens and some longer ones are run.                              *)
EXTENDS Shell

CONSTANTS MaxTokens, MaxRun

Tokens == {"echo", "cat"} \cup Symbols
UpTo(n) == UNION {[1..k -> Tokens] : k \in 0..n}

\* Five bytes one by one, and two writes of three bytes, through a pipe of two;
\* a pipe without a reader, and one whose reader or writer cannot be made; a
\* background command; files appended to, redirected twice and missing.
Longer ==
    { <<"(", "echo", "a", "b", ";", "echo", "c", "d", ";", "echo", "e", ")", "|", "cat">>,
      <<"(", "echo", "a", "b", ";", "echo", "c", ")", ">", "f", ";", "cat", "f", "f", "|", "cat">>,
      <<"(", "echo", "a", "|", "cat", "|", "cat", ")", ">", "f">>,
      <<"echo", "a", "b", "|", "echo", "c">>,
      <<"cat", "|", "echo", "a", "&">>,
      <<"echo", "a", "b", ">", "f", ";", "echo", "c", "+", "f", ";", "cat", "<", "f">>,
      <<"echo", "a", ">", "f", ">", "g", ";", "cat", "f", "h">> }

MCLines == UpTo(MaxTokens) \cup Longer
MCExecuted == UpTo(MaxRun) \cup Longer
=============================================================================

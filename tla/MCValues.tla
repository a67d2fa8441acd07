------------------------------ MODULE MCValues ------------------------------
(* The components that one caller uses at a time, side by side: in each      *)
(* behaviour one of them runs, so that TLC visits the sum of their states.   *)
EXTENDS MCSlist, Base64, Sha1, TextFragments, Frames, Uri, Request, Handle

VARIABLE part

Parts == {"slist", "base64", "sha1", "text", "frames", "uri", "request", "handle"}

ValuesInit ==
  /\ part \in Parts
  /\ Init /\ Base64Init /\ Sha1Init /\ TextInit /\ FramesInit /\ UriInit /\ RequestInit /\ HandleInit
  /\ part # "uri" => uri_text = <<"9", ":", "/">>

ValuesNext ==
  /\ UNCHANGED part
  /\ IF part = "slist" THEN Next ELSE UNCHANGED vars
  /\ IF part = "base64" THEN Base64Next ELSE UNCHANGED b64_data
  /\ IF part = "sha1" THEN Sha1Next ELSE UNCHANGED sha1Vars
  /\ IF part = "text" THEN TextNext ELSE UNCHANGED textVars
  /\ IF part = "frames" THEN FramesNext ELSE UNCHANGED framesVars
  /\ IF part = "uri" THEN UriNext ELSE UNCHANGED uri_text
  /\ IF part = "request" THEN RequestNext ELSE UNCHANGED requestVars
  /\ IF part = "handle" THEN HandleNext ELSE UNCHANGED handleVars

ValuesSpec == ValuesInit /\ [][ValuesNext]_<<part, vars, b64_data, sha1Vars, textVars, framesVars,
                                             uri_text, requestVars, handleVars>>

-------------------------------------------------------------------------------
(* The characters of a text one by one, and a port that is out of range.     *)
UriTexts == {<<c>> : c \in UriChars} \cup {<<"9", "9", "9", "9", "9">>}

(* A scheme, none, and a text that is no uri.                                *)
UriBeginnings == {<<"9", ":", "/">>, <<":", "/", "/">>, <<"9", "&", "=">>}

(* Fields with blanks in them, and a tab in the value; the cookie that no line*)
(* can stand for has blanks around its path and a time between seconds.      *)
SomeCookies ==
  {[domain |-> <<2>>, include_subdomains |-> b, path |-> IF b THEN <<>> ELSE <<1, 2>>, secure |-> ~b,
    expires |-> IF b THEN -2 ELSE 3, name |-> <<3, 1, 2>>, value |-> <<2, 0, 3>>] : b \in BOOLEAN}
=============================================================================

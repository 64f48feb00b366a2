------------------------------- MODULE MCSettings ------------------------------
(* Settings for TLC: limits of one and two digits instead of ten, values of   *)
(* three characters instead of 256, two registry entries instead of 64.       *)
EXTENDS Settings

Note == <<"user", "note">>
MCKey == ResetKeys \cup Identity \cup {CrashRecord, Note, <<"display", "contrast">>}
MCSegment == {"fw", "factory-reset-pending", "user", "profile", "note", "network", "ssid",
              "psk", "display", "contrast", "board", "serial", "hw-rev", "diagnostics",
              "crash-record", "deep", "", "key!"}
MCBadSegment == {"key!"}
MCLongKey == {<<"user", "profile", "deep">>, <<"user", "profile", "">>}

Contrast == <<"display", "contrast">>
Texts == {<<>>, <<"3", "2">>, <<"-", "1", "4">>, <<"0", "0", "1", "2">>}
MCChar == Digit \cup {"-", "get", "set"}

BadWord == {<<"user">>, <<"user", "key!">>, <<"user", "profile", "deep">>,
            <<"user", "note", "deep", "deep">>}
MCTyped ==
  {<<word>> : word \in {<<"get">>, <<"set">>, Contrast, <<"user", "profile">>} \cup BadWord}
    \cup {<<Contrast, text>> : text \in Texts}
    \cup {<<word, <<"1">>>> : word \in {<<"set">>, Note, <<"user", "profile">>, <<"user">>}}
    \cup {<<<<"set">>, <<>>>>, <<<<"set">>, <<"0", "0", "1", "2">>>>}
    \cup {<<Note, <<"1">>, <<"1">>>>}
MCCrashTexts == {<<>>, <<"1">>}
MCCounted == {Contrast}
MCNumber == {-13, 12}
MCDescribed == {Contrast, Serial, Note}
MCErrno == {"ENOENT", "EBUSY"}
================================================================================

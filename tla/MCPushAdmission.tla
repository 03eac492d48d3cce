---------------------------- MODULE MCPushAdmission ----------------------------
(***************************************************************************)
(* An instance of PushAdmission for TLC.  Each input is the plain one with  *)
(* one part varied around its limits: a text of a key, a field of a payload,*)
(* a size, a setting.  Endpoints are all texts of up to three characters and*)
(* longer ones made of parts, well-formed and not.                          *)
(***************************************************************************)
EXTENDS PushAdmission

\* ::, ::1, ::A and ::a
MCIpv6Texts == {<<":", ":">>} \cup {<<":", ":", c>> : c \in {"1", "A", "a"}}

Plain == [endpoint |-> [https |-> TRUE, rest |-> <<"a", "/">>],
          p256dh |-> [data |-> 87, padding |-> 0, clean |-> TRUE],
          uncompressed |-> TRUE, onCurve |-> TRUE,
          auth |-> [data |-> 22, padding |-> 0, clean |-> TRUE],
          typed |-> FALSE,
          payload |->
            [isObject |-> TRUE, unknown |-> FALSE,
             field |-> [f \in Fields |-> IF f \in {"title", "body"} THEN "text" ELSE "absent"],
             actions |-> <<>>, size |-> 60]]

Keys(n) ==
    [data : (n - 4)..(n + 2), padding : 0..3, clean : {TRUE}]
        \cup {[data |-> n, padding |-> 0, clean |-> FALSE]}

KeyPushes ==
    {[Plain EXCEPT !.p256dh = k] : k \in Keys(87)}
        \cup {[Plain EXCEPT !.auth = k] : k \in Keys(22)}
        \cup {[Plain EXCEPT !.uncompressed = FALSE], [Plain EXCEPT !.onCurve = FALSE]}

PlainAction ==
    [isObject |-> TRUE, unknown |-> FALSE,
     field |-> [f \in ActionFields |-> IF f \in {"action", "title"} THEN "text" ELSE "absent"]]

VariedActions ==
    {[PlainAction EXCEPT !.field[f] = k] : f \in ActionFields, k \in Kinds}
        \cup {[PlainAction EXCEPT !.isObject = FALSE], [PlainAction EXCEPT !.unknown = TRUE]}

WithActions(actions) ==
    [Plain EXCEPT !.payload.field["actions"] = "array", !.payload.actions = actions]

PayloadPushes ==
    {[Plain EXCEPT !.payload.field[f] = k] : f \in Fields, k \in Kinds}
        \cup {WithActions(<<a>>) : a \in VariedActions}
        \cup {WithActions(<<PlainAction, a>>) : a \in VariedActions}
        \cup {[Plain EXCEPT !.payload.isObject = FALSE], [Plain EXCEPT !.payload.unknown = TRUE]}
        \cup {[Plain EXCEPT !.payload.size = n] : n \in {2, 59, 61, 3992, 3993, 3994, 4000}}

\* A CurierPayload has texts where texts belong; its data may be anything.
TypedPushes ==
    {[Plain EXCEPT !.typed = TRUE, !.payload.field["title"] = k] : k \in {"empty", "text"}}
        \cup {[Plain EXCEPT !.typed = TRUE, !.payload.field["data"] = k] : k \in Kinds}
        \cup {[WithActions(s) EXCEPT !.typed = TRUE] :
                s \in {<<>>, <<PlainAction>>,
                       <<[PlainAction EXCEPT !.field["title"] = "empty"]>>}}

Characters == {"a", "A", "4", "-", ".", ":", "[", "]", "@", "/", "#", " "}

Hosts ==
    SeqOf({"a", "-", "."}, 5) \cup
        {<<"A", "1">>, <<"a", "@">>, <<"@", "a">>} \cup
        {<<"[">> \o a \o <<"]">> : a \in MCIpv6Texts \cup {<<>>, <<":">>, <<":", "1">>, <<"a">>}}

Ports ==
    {<<>>, <<":">>, <<":", "-">>, <<":", ":", "1">>, <<":", "1", ":", "4">>, <<"]", "]">>} \cup
        {<<":">> \o n : n \in SeqOf({"0", "1", "4"}, 3)}

Tails == {<<>>, <<"/">>, <<"/", "@">>, <<"/", ":", "1">>, <<"/", "a", "#">>, <<"#">>, <<":">>}

Rests ==
    SeqOf(Characters, 3) \cup Hosts
        \cup {h \o n \o t : h \in {<<"a", ".", "A">>, <<"[", ":", ":", "A", "]">>},
                            n \in Ports, t \in Tails}

EndpointPushes ==
    {[Plain EXCEPT !.endpoint.rest = r] : r \in Rests}
        \cup {[Plain EXCEPT !.endpoint.https = FALSE]}

MCPushes == KeyPushes \cup PayloadPushes \cup TypedPushes \cup EndpointPushes

PlainConfig ==
    [queueSize |-> 16, maxPayloadBytes |-> 3993, maxEndpointBytes |-> 2048,
     requestTimeoutMs |-> 5000, othersInRange |-> TRUE,
     bundle |-> TRUE, globalStore |-> FALSE, certificate |-> FALSE,
     subject |-> [scheme |-> "mailto:", rest |-> <<"a", "@", "a">>],
     publicKey |-> [data |-> 87, padding |-> 0, clean |-> TRUE], uncompressed |-> TRUE,
     privateKey |-> [data |-> 43, padding |-> 0, clean |-> TRUE],
     keysMatch |-> TRUE]

MCConfigs ==
    {[PlainConfig EXCEPT !.queueSize = n] : n \in {0, 257}}
        \cup {[PlainConfig EXCEPT !.maxPayloadBytes = n] : n \in {0, 60, 3993, 3994, 4096}}
        \cup {[PlainConfig EXCEPT !.maxEndpointBytes = n] : n \in {8, 9, 11, IntMax + 1}}
        \cup {[PlainConfig EXCEPT !.requestTimeoutMs = n] : n \in {0, IntMax, IntMax + 1}}
        \cup {[PlainConfig EXCEPT !.bundle = b, !.globalStore = g, !.certificate = c] :
                b \in BOOLEAN, g \in BOOLEAN, c \in BOOLEAN}
        \cup {[PlainConfig EXCEPT !.subject = s] :
                s \in [scheme : {"mailto:", "https://", "other"},
                       rest : {<<>>, <<"/">>, <<"a", "@">>, <<"a", "/", "@">>, <<" ">>}]}
        \cup {[PlainConfig EXCEPT !.publicKey = k] : k \in Keys(87)}
        \cup {[PlainConfig EXCEPT !.privateKey = k] : k \in Keys(43)}
        \cup {[PlainConfig EXCEPT !.othersInRange = FALSE],
              [PlainConfig EXCEPT !.uncompressed = FALSE],
              [PlainConfig EXCEPT !.keysMatch = FALSE]}
================================================================================

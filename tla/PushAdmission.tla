---------------------------- MODULE PushAdmission ----------------------------
(***************************************************************************)
(* What init() and send() admit, and whether what they admit can be sent:   *)
(* validateConfig() and the two send() of src/Curier.cpp, the payload schema*)
(* of src/internal/CurierPayload.cpp, the keys and the encrypted record of  *)
(* src/internal/CurierCrypto.cpp, the request of src/internal/CurierHttp.cpp*)
(* The same limits are enforced in several of these places.                 *)
(*                                                                         *)
(* One push is followed at a time: CurierRuntime has the queue, the threads *)
(* and the shutdown, VapidCache the token, RetryPolicy the retries.         *)
(*                                                                         *)
(* An operator commented "Slip:" is the operator after it with a plausible  *)
(* mistake in it; nothing uses it.                                          *)
(***************************************************************************)
EXTENDS EndpointOrigin, FiniteSets

CONSTANTS
    IntMax,         \* INT_MAX
    Builds,         \* values of CURIER_HAS_CERT_BUNDLE
    None,           \* no configuration, no push
    Configs,        \* configurations that init() is called with
    Pushes          \* pushes that send() is called with

\* A base64url text: how many characters of the alphabet and how many "=" it
\* has, and whether it is nothing but the former followed by the latter.
KeyTexts == [data : Nat, padding : Nat, clean : BOOLEAN]

\* The kinds of JSON values the schema tells apart.
Kinds == {"absent", "null", "empty", "text", "bool", "integer", "real", "object", "array"}
Fields ==
    {"title", "body", "tag", "icon", "badge", "image", "renotify",
     "requireInteraction", "silent", "timestamp", "data", "actions"}
ActionFields == {"action", "title", "icon", "navigate"}

Actions == [isObject : BOOLEAN, unknown : BOOLEAN, field : [ActionFields -> Kinds]]

\* unknown: there is a field of another name.
Payloads ==
    [isObject : BOOLEAN, unknown : BOOLEAN, field : [Fields -> Kinds],
     actions : Seq(Actions), size : Nat]

Endpoints ==
    [https : BOOLEAN, rest : Seq(Alphanumeric \cup Punctuation)]

\* The arguments of send(); typed: of the overload with a CurierPayload.
SendArguments ==
    [endpoint : Endpoints,
     p256dh : KeyTexts, uncompressed : BOOLEAN, onCurve : BOOLEAN,
     auth : KeyTexts,
     typed : BOOLEAN, payload : Payloads]

\* CurierConfig; othersInRange stands for the settings of the memory, the task,
\* the TTL and the retries.
Configurations ==
    [queueSize : Nat, maxPayloadBytes : Nat, maxEndpointBytes : Nat,
     requestTimeoutMs : Nat, othersInRange : BOOLEAN,
     bundle : BOOLEAN, globalStore : BOOLEAN, certificate : BOOLEAN,
     subject : [scheme : {"mailto:", "https://", "other"},
                rest : Seq(Alphanumeric \cup Punctuation)],
     publicKey : KeyTexts, uncompressed : BOOLEAN,
     privateKey : KeyTexts, keysMatch : BOOLEAN]

ASSUME PushesAssumption == Pushes \subseteq SendArguments
\* The braces of a JSON object are two characters.
ASSUME SizesAssumption ==
    \A p \in Pushes : p.payload.isObject => p.payload.size >= 2
ASSUME ConfigsAssumption == Configs \subseteq Configurations
ASSUME NoneAssumption == None \notin SendArguments /\ None \notin Configurations

\* C++ has no smaller INT_MAX than 32767.
ASSUME BuildAssumption ==
    /\ IntMax \in Nat /\ IntMax >= 32767
    /\ Builds \subseteq BOOLEAN

VARIABLES
    stage,          \* off, ready; then of the push: refused, or accepted, encrypted,
                    \* sent, failed
    status,         \* what the last call, or the push, has come to
    config,         \* the copy that init() has made
    push,           \* what send() was called with; its copy, when accepted
    origin,         \* of the job
    body,           \* bytes of the encrypted body, 0 when there is none
    hasCertBundle,  \* CURIER_HAS_CERT_BUNDLE of the build
    trust           \* where the request finds the certificates it trusts

vars == <<stage, status, config, push, origin, body, trust, hasCertBundle>>

-----------------------------------------------------------------------------
(* Keys *)

TextSize(key) == key.data + key.padding

\* validBase64UrlShape()
ValidShape(key) ==
    /\ TextSize(key) > 0
    /\ key.clean
    /\ key.padding <= 2
    /\ key.padding > 0 => TextSize(key) % 4 = 0
    /\ TextSize(key) % 4 # 1

\* What decodeBase64Url() makes of a valid text, in bytes: the text is padded
\* with "=" to a multiple of four and decoded.
DecodedSize(key) == (key.data * 6) \div 8

\* Slip: the size of the text says everything.
IsPublicKeyBySize(key, uncompressed) ==
    TextSize(key) \in {87, 88} /\ ValidShape(key) /\ uncompressed

\* decodePublicKey(): 65 bytes, the first of which is 4.
IsPublicKey(key, uncompressed) ==
    /\ TextSize(key) \in {87, 88}
    /\ ValidShape(key)
    /\ DecodedSize(key) = 65
    /\ uncompressed

\* decodePrivateKey()
IsPrivateKey(key) ==
    /\ TextSize(key) \in {43, 44}
    /\ ValidShape(key)
    /\ DecodedSize(key) = 32

IsAuthSecret(key) ==
    /\ TextSize(key) \in {22, 24}
    /\ ValidShape(key)
    /\ DecodedSize(key) = 16

-----------------------------------------------------------------------------
(* init() *)

MaxPlaintext == 3993

\* Slip: the payload may fill the record.
PayloadLimitIsValidUpToRecord(c) == c.maxPayloadBytes \in 1..4096

PayloadLimitIsValid(c) == c.maxPayloadBytes \in 1..MaxPlaintext

\* Slip: one source at least.
TrustIsValidIfAny(c) == c.bundle \/ c.globalStore \/ c.certificate

TrustIsValid(c) ==
    /\ ~ (c.globalStore /\ c.certificate)
    /\ c.bundle \/ c.globalStore \/ c.certificate

\* validateConfig()
ConfigIsValid(c) ==
    /\ c.queueSize \in 1..256
    /\ PayloadLimitIsValid(c)
    /\ c.maxEndpointBytes \in 9..IntMax
    /\ c.requestTimeoutMs \in 1..IntMax
    /\ c.othersInRange
    /\ TrustIsValid(c)

\* validVapidSubject(), for subjects of at most 512 characters.
SubjectIsValid(subject) ==
    LET authority == Before(subject.rest, {"/", "#"})
    IN  /\ subject.scheme \in {"mailto:", "https://"}
        /\ subject.rest # <<>>
        /\ subject.scheme = "https://" => authority # <<>> /\ ~ Contains(authority, "@")
        /\ ~ Contains(subject.rest, " ")

\* The status of init(): its checks in their order, validateVapid() the last.
\* What fails for want of memory or of random numbers is in CurierRuntime.
InitStatus(c) ==
    IF ~ ConfigIsValid(c) THEN "InvalidConfig"
    ELSE IF stage # "off" THEN "AlreadyInitialized"
    ELSE IF ~ SubjectIsValid(c.subject) THEN "InvalidVapidSubject"
    ELSE IF ~ (IsPublicKey(c.publicKey, c.uncompressed) /\ IsPrivateKey(c.privateKey))
    THEN "InvalidVapidKey"
    ELSE IF ~ c.keysMatch THEN "VapidKeyMismatch"
    ELSE "Ok"

-----------------------------------------------------------------------------
(* send() *)

OptionalText == {"absent", "null", "empty", "text"}
OptionalFlag == {"absent", "null", "bool"}

\* validateAction()
ActionIsValid(action) ==
    /\ action.isObject /\ ~ action.unknown
    /\ action.field["action"] = "text" /\ action.field["title"] = "text"
    /\ action.field["icon"] \in OptionalText /\ action.field["navigate"] \in OptionalText

\* validateAndSerialize() before it measures the text.
PayloadIsValid(payload) ==
    /\ payload.isObject /\ ~ payload.unknown
    /\ payload.field["title"] = "text" /\ payload.field["body"] = "text"
    /\ \A f \in {"tag", "icon", "badge", "image"} : payload.field[f] \in OptionalText
    /\ \A f \in {"renotify", "requireInteraction", "silent"} :
            payload.field[f] \in OptionalFlag
    /\ payload.field["timestamp"] \in {"absent", "null", "integer"}
    /\ payload.field["data"] \in {"absent", "null", "object", "array"}
    /\ \/ payload.field["actions"] \in {"absent", "null"}
       \/ /\ payload.field["actions"] = "array"
          /\ \A i \in DOMAIN payload.actions : ActionIsValid(payload.actions[i])

\* serializePayload() of a CurierPayload makes a document of it first; it has no
\* actions when the vector is empty.
Document(p) ==
    IF p.typed /\ p.payload.actions = <<>>
    THEN [p.payload EXCEPT !.field["actions"] = "absent"]
    ELSE p.payload

\* The status of send() while Curier runs and there is room in the queue and in
\* memory: the payload, the endpoint and the keys, in this order.
SendStatus(p) ==
    IF ~ PayloadIsValid(Document(p)) \/ p.payload.size = 0 THEN "InvalidPayload"
    ELSE IF p.payload.size > config.maxPayloadBytes THEN "PayloadTooLarge"
    ELSE IF ~ EndpointIsValid(p.endpoint, config.maxEndpointBytes) THEN "InvalidSubscription"
    ELSE IF ~ (IsPublicKey(p.p256dh, p.uncompressed) /\ IsAuthSecret(p.auth))
    THEN "InvalidSubscription"
    ELSE "Ok"

-----------------------------------------------------------------------------
(* process() *)

RecordSize == 4096

\* Salt, record size, key length and key; the padded plaintext; the tag.
BodySize(plaintext) == (16 + 4 + 1 + 65) + (plaintext + 1) + 16

\* encryptWithInputs(), up to failures of mbedTLS.
EncryptStatus(p) ==
    IF p.payload.size \notin 1..MaxPlaintext THEN "PayloadTooLarge"
    ELSE IF ~ (IsPublicKey(p.p256dh, p.uncompressed) /\ IsAuthSecret(p.auth))
    THEN "InvalidSubscription"
    ELSE IF ~ p.onCurve THEN "CryptoError"
    ELSE "Ok"

UsesBundle == config.bundle /\ ~ config.globalStore /\ ~ config.certificate

\* The sources that the configuration of the HTTP client names.
TrustSources ==
    (IF config.globalStore THEN {"global store"} ELSE {})
        \cup (IF config.certificate THEN {"certificate"} ELSE {})
        \cup (IF UsesBundle THEN {"bundle"} ELSE {})

\* sendWebPushRequest() before it makes a client.
RequestStatus ==
    IF body \notin 1..IntMax \/ config.requestTimeoutMs > IntMax THEN "InternalError"
    ELSE IF UsesBundle /\ ~ hasCertBundle THEN "TransportError"
    ELSE "Ok"

-----------------------------------------------------------------------------

Init ==
    /\ stage = "off" /\ status = "None"
    /\ config = None /\ push = None
    /\ origin = <<>> /\ body = 0 /\ trust = {}
    /\ hasCertBundle \in Builds

InitSucceeds(c) ==
    /\ stage = "off"
    /\ InitStatus(c) = "Ok"
    /\ stage' = "ready" /\ status' = "Ok"
    /\ config' = c
    /\ UNCHANGED <<push, origin, body, trust, hasCertBundle>>

\* Refused while Curier runs, init() leaves the configuration in use.
InitRefused(c) ==
    /\ stage \in {"off", "ready"}
    /\ InitStatus(c) # "Ok"
    /\ status' = InitStatus(c)
    /\ UNCHANGED <<stage, config, push, origin, body, trust, hasCertBundle>>

SendAccepted(p) ==
    /\ stage = "ready"
    /\ SendStatus(p) = "Ok"
    /\ stage' = "accepted" /\ status' = "Ok"
    /\ push' = p
    /\ origin' = Origin(p.endpoint)
    /\ UNCHANGED <<config, body, trust, hasCertBundle>>

SendRefused(p) ==
    /\ stage = "ready"
    /\ SendStatus(p) # "Ok"
    /\ stage' = "refused" /\ status' = SendStatus(p)
    /\ push' = p
    /\ UNCHANGED <<config, origin, body, trust, hasCertBundle>>

\* The first pass with a token encrypts; the later ones use the body again.
Encrypt ==
    /\ stage = "accepted"
    /\ status' = EncryptStatus(push)
    /\ IF status' = "Ok"
       THEN stage' = "encrypted" /\ body' = BodySize(push.payload.size)
       ELSE stage' = "failed" /\ body' = 0
    /\ UNCHANGED <<config, push, origin, trust, hasCertBundle>>

\* mbedTLS or its random generator fails.
EncryptFails ==
    /\ stage = "accepted"
    /\ stage' = "failed" /\ status' = "CryptoError"
    /\ UNCHANGED <<config, push, origin, body, trust, hasCertBundle>>

\* The request is made; what comes of it is RetryPolicy's.
Post ==
    /\ stage = "encrypted"
    /\ status' = RequestStatus
    /\ IF status' = "Ok"
       THEN stage' = "sent" /\ trust' = TrustSources
       ELSE stage' = "failed" /\ trust' = {}
    /\ UNCHANGED <<config, push, origin, body, hasCertBundle>>

\* The callback and the release of the job; or send() returns a refusal.
Complete ==
    /\ stage \in {"refused", "sent", "failed"}
    /\ stage' = "ready" /\ status' = "None"
    /\ push' = None /\ origin' = <<>> /\ body' = 0 /\ trust' = {}
    /\ UNCHANGED <<config, hasCertBundle>>

\* end() releases the copy of the configuration.
End ==
    /\ stage = "ready"
    /\ stage' = "off" /\ status' = "None"
    /\ config' = None
    /\ UNCHANGED <<push, origin, body, trust, hasCertBundle>>

Next ==
    \/ \E c \in Configs : InitSucceeds(c)
    \/ \E c \in Configs : InitRefused(c)
    \/ \E p \in Pushes : SendAccepted(p)
    \/ \E p \in Pushes : SendRefused(p)
    \/ Encrypt
    \/ EncryptFails
    \/ Post
    \/ Complete
    \/ End

Spec == Init /\ [][Next]_vars

-----------------------------------------------------------------------------
(* What the documents ask of the arguments, in terms of their own.           *)

\* A host name: letters, digits and single hyphens and dots between them, and no
\* more than MaxLabel characters in a row without a dot.
NamesHost(text) ==
    /\ Len(text) \in 1..MaxHost
    /\ ToSet(text) \subseteq Alphanumeric \cup {"-", "."}
    /\ {text[1], Last(text)} \subseteq Alphanumeric
    /\ \A i \in 1..(Len(text) - 1) :
            "." \in {text[i], text[i + 1]}
                => {text[i], text[i + 1]} \subseteq Alphanumeric \cup {"."}
                   /\ text[i] # text[i + 1]
    /\ \A i \in 1..(Len(text) - MaxLabel) : "." \in ToSet(SubSeq(text, i, i + MaxLabel))

\* The address in brackets is one that inet_pton() knows.
NamesAddress(text) == \E a \in Ipv6Texts : text = <<"[">> \o a \o <<"]">>

\* The first h characters are the host, those up to a the authority.
IsSplit(text, h, a) ==
    LET host == SubSeq(text, 1, h)
        port == SubSeq(text, h + 1, a)
    IN  /\ h <= a
        /\ NamesHost(host) \/ NamesAddress(host)
        /\ port # <<>> =>
            /\ port[1] = ":" /\ Len(port) > 1
            /\ ToSet(Tail(port)) \subseteq ToSet(Digits)
            /\ Number(Tail(port)) \in 1..MaxPort
        /\ a < Len(text) => text[a + 1] = "/"

Splits(text) ==
    {s \in (0..Len(text)) \X (0..Len(text)) : IsSplit(text, s[1], s[2])}

IsEndpointUrl(endpoint) ==
    /\ endpoint.https
    /\ SchemeLength + Len(endpoint.rest) <= config.maxEndpointBytes
    /\ "#" \notin ToSet(endpoint.rest)
    /\ Splits(endpoint.rest) # {}

\* The text is the base64url form of n bytes, with all of its padding or none.
EncodesBytes(key, n) ==
    LET characters == (4 * n + 2) \div 3
    IN  /\ key.clean
        /\ key.data = characters
        /\ key.padding \in {0, (4 - (characters % 4)) % 4}

IsSubscription(p) ==
    /\ IsEndpointUrl(p.endpoint)
    /\ EncodesBytes(p.p256dh, 65) /\ p.uncompressed
    /\ EncodesBytes(p.auth, 16)

\* docs/api.md, "Sending"; a null stands for a field that is not there.
IsNotification(payload) ==
    LET given(f) == payload.field[f] \notin {"absent", "null"}
        texts(action) == {f \in ActionFields : action.field[f] = "text"}
    IN  /\ payload.isObject /\ ~ payload.unknown
        /\ \A f \in {"title", "body"} : payload.field[f] = "text"
        /\ \A f \in Fields : given(f) =>
            payload.field[f] \in
                CASE f \in {"title", "body", "tag", "icon", "badge", "image"} -> {"empty", "text"}
                  [] f \in {"renotify", "requireInteraction", "silent"} -> {"bool"}
                  [] f = "timestamp" -> {"integer"}
                  [] f = "data" -> {"object", "array"}
                  [] f = "actions" -> {"array"}
        /\ given("actions") =>
            \A i \in DOMAIN payload.actions :
                /\ payload.actions[i].isObject /\ ~ payload.actions[i].unknown
                /\ {"action", "title"} \subseteq texts(payload.actions[i])
                /\ \A f \in ActionFields :
                    payload.actions[i].field[f] \in {"absent", "null", "empty", "text"}

-----------------------------------------------------------------------------
(* Properties *)

Accepted == stage \in {"accepted", "encrypted", "sent", "failed"}

\* Every variable keeps its range; in particular an origin has no upper case.
TypeOK ==
    /\ stage \in {"off", "ready", "refused", "accepted", "encrypted", "sent", "failed"}
    /\ IF stage = "off" THEN config = None ELSE config \in Configurations /\ ConfigIsValid(config)
    /\ IF stage \in {"off", "ready"} THEN push = None ELSE push \in SendArguments
    /\ ToSet(origin) \subseteq (Alphanumeric \ DOMAIN Lowercase) \cup {"-", ".", ":", "[", "]"}
    /\ body \in 0..BodySize(MaxPlaintext)
    /\ hasCertBundle \in BOOLEAN
    /\ trust \subseteq {"global store", "certificate", "bundle"}

\* Nothing gets into the queue that the documents do not allow: docs/protocol.md,
\* "Malformed authorities, unbracketed IPv6, multiple port separators, [...] and
\* invalid DNS labels are rejected before queueing", and docs/api.md for the
\* payload, whichever overload it comes through.
AcceptedIsSound ==
    Accepted =>
        /\ IsSubscription(push)
        /\ IsNotification(Document(push))
        /\ push.payload.size \in 1..config.maxPayloadBytes

\* A refusal blames the argument that is at fault: an application that forgets
\* a subscription because of InvalidSubscription forgets no good one, and none
\* because of its payload.
RefusalIsJust ==
    stage = "refused" =>
        CASE status = "InvalidPayload" -> ~ IsNotification(Document(push))
          [] status = "PayloadTooLarge" -> push.payload.size > config.maxPayloadBytes
          [] status = "InvalidSubscription" -> ~ IsSubscription(push)

\* docs/protocol.md: the audience is the "scheme, lowercase host, and a
\* non-default port when present", of the server that the request goes to and
\* never of what stands in the path; so that endpoints of one server share a
\* token, however they are written.
OriginIsOfServer ==
    Accepted => \A s \in Splits(push.endpoint.rest) :
        LET host == SubSeq(push.endpoint.rest, 1, s[1])
            port == SubSeq(push.endpoint.rest, s[1] + 2, s[2])
            suffix == From(origin, s[1])
        IN  /\ Len(origin) >= s[1]
            /\ \A i \in 1..s[1] :
                    origin[i] = IF host[i] = "A" THEN "a" ELSE host[i]
            /\ IF port = <<>> \/ Number(port) = DefaultPort
               THEN suffix = <<>>
               ELSE /\ suffix # <<>> /\ suffix[1] = ":"
                    /\ suffix[2] # "0" /\ Number(Tail(suffix)) = Number(port)

\* docs/configuration.md derives the limit of a payload from "one 4096-byte RFC
\* 8188 encrypted record": whatever init() and send() accept is encrypted and
\* requested without another refusal of its sizes or keys, in one record.  Only
\* a point that is not on the curve is found out later.
AcceptedIsDeliverable ==
    /\ stage = "failed" =>
        \/ status = "CryptoError"
        \/ status = "TransportError" /\ ~ hasCertBundle
    /\ stage \in {"encrypted", "sent"} => body <= RecordSize /\ push.onCurve

\* docs/configuration.md, "TLS": a request trusts one source, the one with the
\* precedence: a certificate or the global store before the bundle.
OneTrustSource ==
    stage = "sent" =>
        /\ Cardinality(trust) = 1
        /\ config.certificate => trust = {"certificate"}
        /\ config.globalStore => trust = {"global store"}
        /\ trust = {"bundle"} => hasCertBundle
==============================================================================

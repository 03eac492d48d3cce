---------------------------- MODULE EndpointOrigin ----------------------------
(***************************************************************************)
(* endpointOrigin() of src/internal/CurierProtocol.cpp: which endpoint URLs *)
(* send() accepts, and the origin it makes of one, which is the audience of *)
(* the token and the key of its cache.                                      *)
(*                                                                         *)
(* A text is a sequence of characters.  An endpoint is whether it begins    *)
(* with https://, in any case of letters, and the text after these eight    *)
(* characters; an origin is the text after its "https://".  The alphabet    *)
(* has what the parser tells apart: "?" behaves as "/" does, and "\" as "#" *)
(* does.                                                                    *)
(*                                                                         *)
(* An operator commented "Slip:" is the operator after it with a plausible  *)
(* mistake in it; nothing uses it.                                          *)
(***************************************************************************)
EXTENDS Integers, SequencesExt

CONSTANTS
    MaxLabel,       \* 63, the characters of a label of a host name
    MaxHost,        \* 253, the characters of a host name
    DefaultPort,    \* 443
    MaxPort,        \* 65535
    Ipv6Texts       \* the texts that inet_pton(AF_INET6) accepts

ASSUME LimitsAssumption ==
    /\ {MaxLabel, MaxHost} \subseteq Nat \ {0}
    /\ MaxPort \in Nat /\ DefaultPort \in 1..MaxPort

Digits == <<"0", "1", "2", "3", "4", "5", "6", "7", "8", "9">>
DigitValue == [d \in ToSet(Digits) |-> SelectInSeq(Digits, LAMBDA x : x = d) - 1]
Lowercase == [upper \in {"A"} |-> "a"]
Alphanumeric == ToSet(Digits) \cup DOMAIN Lowercase \cup {"a"}
Punctuation == {"-", ".", ":", "[", "]", "@", "/", "#", " "}

SchemeLength == 8
Ipv6TextBufferSize == 46    \* with the character that ends a text in C

\* The shortest address is ::, the longest ends in one of IPv4.
ASSUME Ipv6Assumption ==
    /\ Ipv6Texts \subseteq Seq(Alphanumeric \cup {":", "."})
    /\ \A text \in Ipv6Texts : Len(text) >= 2 /\ Len(text) < Ipv6TextBufferSize

-----------------------------------------------------------------------------

\* The text before the first of the characters, all of it if there is none.
Before(text, characters) ==
    LET first == SelectInSeq(text, LAMBDA c : c \in characters)
    IN  IF first = 0 THEN text ELSE SubSeq(text, 1, first - 1)

\* The text after its first n characters.
From(text, n) == SubSeq(text, n + 1, Len(text))

\* The number that the digits denote.
Number(text) ==
    LET value[n \in 0..Len(text)] ==
            IF n = 0 THEN 0 ELSE 10 * value[n - 1] + DigitValue[text[n]]
    IN  value[Len(text)]

\* parsePort(), which stops as soon as the number is too large.
IsPort(text) ==
    /\ text # <<>> /\ ToSet(text) \subseteq ToSet(Digits)
    /\ Number(text) \in 1..MaxPort

\* Slip: the dot after the label is counted with it.
IsLabelWithDot(text) ==
    /\ Len(text) \in 1..(MaxLabel - 1)
    /\ text[1] # "-" /\ Last(text) # "-"

IsLabel(text) ==
    /\ Len(text) \in 1..MaxLabel
    /\ text[1] # "-" /\ Last(text) # "-"

\* validDnsOrIpv4Host(): a label ends at each dot and at the end of the text.
IsHostName(text) ==
    LET ends == {i \in 1..Len(text) : text[i] = "."} \cup {Len(text) + 1}
        starts == {0} \cup ends
    IN  /\ text # <<>> /\ text[1] # "." /\ Last(text) # "."
        /\ ToSet(text) \subseteq Alphanumeric \cup {"-", "."}
        /\ \A s \in starts, e \in ends :
                s < e /\ (\A i \in (s + 1)..(e - 1) : i \notin ends)
                    => IsLabel(SubSeq(text, s + 1, e - 1))
        /\ Len(text) <= MaxHost

\* validBracketedIpv6()
IsBracketedIpv6(text) ==
    /\ Len(text) >= 4 /\ text[1] = "[" /\ Last(text) = "]"
    /\ Len(text) - 1 <= Ipv6TextBufferSize
    /\ SubSeq(text, 2, Len(text) - 1) \in Ipv6Texts

\* The characters of the host: to the bracket, or to the first colon.
HostLength(authority) ==
    IF authority[1] = "["
    THEN Len(Before(authority, {"]"})) + 1
    ELSE Len(Before(authority, {":"}))

Authority(endpoint) == Before(endpoint.rest, {"/"})
HostOf(authority) == SubSeq(authority, 1, HostLength(authority))
AfterHost(authority) == From(authority, HostLength(authority))

\* What follows the host is a colon and a port, or nothing.  The code looks for
\* second colons and for stray brackets first; they make the host or the port
\* invalid here.
AuthorityIsValid(authority) ==
    /\ authority # <<>>
    /\ ~ Contains(authority, "@")
    /\ HostLength(authority) <= Len(authority)
    /\ IF authority[1] = "["
       THEN IsBracketedIpv6(HostOf(authority))
       ELSE IsHostName(HostOf(authority))
    /\ \/ AfterHost(authority) = <<>>
       \/ AfterHost(authority)[1] = ":" /\ IsPort(From(AfterHost(authority), 1))

EndpointIsValid(endpoint, maxEndpointBytes) ==
    /\ endpoint.https
    /\ SchemeLength + Len(endpoint.rest) <= maxEndpointBytes
    /\ ~ Contains(endpoint.rest, "#")
    /\ AuthorityIsValid(Authority(endpoint))

\* Slip: the case is kept.
LowerNot(text) == text

\* appendLowerAscii()
Lower(text) ==
    [i \in DOMAIN text |->
        IF text[i] \in DOMAIN Lowercase THEN Lowercase[text[i]] ELSE text[i]]

\* std::to_chars() of a port.
PortText(port) ==
    LET text[n \in 0..port] ==
            IF n < 10 THEN <<Digits[n + 1]>> ELSE Append(text[n \div 10], Digits[(n % 10) + 1])
    IN  text[port]

\* Slip: the port is kept as it is written.
PortSuffixAsWritten(authority) == AfterHost(authority)

PortSuffix(authority) ==
    LET port == Number(From(AfterHost(authority), 1))
    IN  IF AfterHost(authority) = <<>> \/ port = DefaultPort
        THEN <<>>
        ELSE <<":">> \o PortText(port)

\* The origin of a valid endpoint.
Origin(endpoint) ==
    LET authority == Authority(endpoint)
    IN  Lower(HostOf(authority)) \o PortSuffix(authority)
===============================================================================

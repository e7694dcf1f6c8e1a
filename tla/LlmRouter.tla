------------------------------- MODULE LlmRouter -------------------------------
(***************************************************************************)
(* pywork/llm/router.py and llm/providers.py: one chat with the language   *)
(* models of the configuration.                                            *)
(*                                                                         *)
(* A chat puts one request to the primary provider, and to one fallback    *)
(* after another until a provider answers.  Each provider is asked through *)
(* its own SDK; between the request and the answer other tasks run, and    *)
(* the chat may be cancelled there.                                        *)
(***************************************************************************)
EXTENDS Naturals, Sequences, FiniteSets

CONSTANTS
    Names,      \* the names of the providers, as normalize_provider_name leaves them
    Format,     \* the API of each: "openai" (and what is compatible) or "anthropic"
    Configs,    \* what the user may have configured
    Replies     \* what a provider may answer

\* listed: the entries of `providers`, in their order; none of them means that the
\* configuration is one flat provider.  sound: the entries with a model, a key and,
\* for an OpenAI-compatible provider, a base_url.  first: default_provider or
\* default, None without one.  mock: llm.fallback_to_mock.
CONSTANT None
Config == [listed: Seq(Names), sound: SUBSET Names, first: Names \cup {None},
           fallbacks: Seq(Names), standard: Names, mock: BOOLEAN]

\* A reply is its tool calls, with or without a name, if it has a message at all.
Reply == [empty: BOOLEAN, calls: Seq({"named", "nameless"})]

ASSUME RouterAssumption ==
    /\ None \notin Names /\ Configs \subseteq Config /\ Replies \subseteq Reply
    /\ Format \in [Names -> {"openai", "anthropic"}]

VARIABLES
    llm,        \* the configuration of this session
    left,       \* the names this chat has still to try
    tried,      \* the names this chat has asked, in order
    chat,       \* [state, by, calls]: how the chat stands
    request,    \* LLMRequest.messages: sequence of [role, number]
    sent        \* [system, messages]: the payload of the last provider that was asked

routerVars == <<llm, left, tried, chat, request, sent>>

Entries(c) == {c.listed[i]: i \in DOMAIN c.listed}

\* create_llm_router: every entry becomes a provider, or there is no router.
\* A flat configuration is one entry named by the first name.
FlatName(c) == IF c.first = None THEN c.standard ELSE c.first

Registered(c) == IF c.listed = <<>> THEN {FlatName(c)} ELSE Entries(c)

Wanted(c) == IF c.listed = <<>> THEN FlatName(c)
             ELSE IF c.first = None THEN Head(c.listed) ELSE c.first

Default(c) == IF Wanted(c) \in Registered(c) THEN Wanted(c) ELSE c.standard

Creatable(c) == Registered(c) \subseteq c.sound /\ Default(c) \in Registered(c)

\* The items of a sequence at some of its places, in their order.
At(s, places) ==
    [k \in 1..Cardinality(places) |->
        s[CHOOSE i \in places: Cardinality({j \in places: j < i}) = k - 1]]

\* The primary first, then the fallbacks that are not in the order yet.
ProviderOrder(c) ==
    LET names == <<Default(c)>> \o c.fallbacks
    IN At(names, {i \in DOMAIN names: \A j \in 1..(i - 1): names[j] # names[i]})

-----------------------------------------------------------------------------
(***************************************************************************)
(* The payload that an adapter makes of the messages.  OpenAI takes the    *)
(* system messages in their place; Anthropic takes them apart, and knows   *)
(* only a user and an assistant.                                           *)
(***************************************************************************)
Of(roles, msgs) == At(msgs, {i \in DOMAIN msgs: msgs[i].role \in roles})

OpenAIRole(role) == IF role = "error" THEN "system" ELSE role

AnthropicRole(role) == IF role = "assistant" THEN role ELSE "user"

Payload(format, msgs) ==
    IF format = "openai"
    THEN [system |-> <<>>,
          messages |-> [i \in DOMAIN msgs |->
                          [msgs[i] EXCEPT !.role = OpenAIRole(msgs[i].role)]]]
    ELSE LET talk == Of({"user", "assistant", "tool", "error"}, msgs)
         IN [system |-> Of({"system"}, msgs),
             messages |-> [i \in DOMAIN talk |->
                             [talk[i] EXCEPT !.role = AnthropicRole(talk[i].role)]]]

\* _parse_response: a nameless call, and for OpenAI a reply without a message, raises.
Nameless(reply) == \E i \in DOMAIN reply.calls: reply.calls[i] = "nameless"

OpenAIReads(reply) == ~reply.empty /\ ~Nameless(reply)

AnthropicReads(reply) == ~Nameless(reply)

Readable(format, reply) == IF format = "openai" THEN OpenAIReads(reply) ELSE AnthropicReads(reply)

-----------------------------------------------------------------------------
NoChat == [state |-> "none", by |-> None, calls |-> 0]
NotSent == [system |-> <<>>, messages |-> <<>>]

RouterInit ==
    /\ llm \in Configs
    /\ left = <<>> /\ tried = <<>> /\ chat = NoChat
    /\ request = <<>> /\ sent = NotSent

\* LLMRouter.chat up to the first provider; without a router nothing is asked.
Opens(msgs) ==
    /\ request' = msgs /\ tried' = <<>> /\ sent' = NotSent
    /\ IF Creatable(llm)
       THEN left' = ProviderOrder(llm) /\ chat' = [NoChat EXCEPT !.state = "asking"]
       ELSE left' = <<>> /\ chat' = [NoChat EXCEPT !.state = "failed"]
    /\ UNCHANGED llm

\* require_provider raises outside the try: an unknown fallback ends the chat.
Unknown ==
    /\ chat.state = "asking" /\ left # <<>> /\ Head(left) \notin Registered(llm)
    /\ chat' = [chat EXCEPT !.state = "failed"]
    /\ UNCHANGED <<llm, left, tried, request, sent>>

\* The request is sent: the payload of the provider is built from the messages.
Sends ==
    /\ chat.state = "asking" /\ left # <<>> /\ Head(left) \in Registered(llm)
    /\ tried' = Append(tried, Head(left)) /\ left' = Tail(left)
    /\ sent' = Payload(Format[Head(left)], request)
    /\ chat' = [chat EXCEPT !.state = "waiting"]
    /\ UNCHANGED <<llm, request>>

\* The provider raises, or its reply cannot be read.
Fails ==
    /\ chat.state = "waiting"
    /\ chat' = [chat EXCEPT !.state = IF left = <<>> THEN "failed" ELSE "asking"]
    /\ UNCHANGED <<llm, left, tried, request, sent>>

Answers(reply) ==
    /\ chat.state = "waiting" /\ Readable(Format[tried[Len(tried)]], reply)
    /\ chat' = [state |-> "answered", by |-> tried[Len(tried)], calls |-> Len(reply.calls)]
    /\ UNCHANGED <<llm, left, tried, request, sent>>

\* metadata.fallback_used of the answer.
FallbackUsed == chat.by # Default(llm)

Provider == Sends \/ Unknown \/ Fails \/ \E reply \in Replies: Answers(reply)

=============================================================================

---------------------------- MODULE Qwen3Backend ----------------------------
(***************************************************************************)
(* llm/Qwen3Backend.cpp: a chat history, and a llama.cpp context that has  *)
(* decoded some tokens before.  Each call decodes only what the context    *)
(* does not hold yet, so what the backend believes the context to hold     *)
(* (_committed) decides what the model sees.                               *)
(*                                                                         *)
(* _ctxMutex is held for a whole call, so a call is cut only where the     *)
(* cancel flag is read.  The queue that takes the tokens is in Session.    *)
(* llama.cpp is external: a decode may fail after any part of its tokens,  *)
(* and removing the end of the context may be refused.                     *)
(***************************************************************************)
EXTENDS Integers, Sequences, SequencesExt

CONSTANTS
    Prompts,        \* texts of system and user messages, one token each
    Vocabulary,     \* tokens the model generates, each with its piece of text
    Token,          \* llama_token: what a text is tokenized to
    Tokenize(_),    \* llama_tokenize of a text, from its pieces
    Budget,         \* 80 % of the context size
    MaxTokens,      \* the maxTokens argument of a call
    MaxHistory      \* bound: messages of the history

ASSUME BackendAssumption ==
    /\ Budget \in Nat /\ MaxTokens \in Nat /\ MaxHistory \in Nat
    /\ Prompts \cap Vocabulary = {}

(* Whatever is tokenized, a prompt or a reply, becomes a sequence of tokens. *)
ASSUME TokenizerAssumption ==
    /\ \A p \in Prompts : Tokenize(<<p>>) \in Seq(Token)
    /\ \A n \in 0 .. MaxTokens : \A text \in [1 .. n -> Vocabulary] :
           Tokenize(text) \in Seq(Token)

VARIABLES
    history,    \* _history: [role, text]
    ctx,        \* [kv: sequence 0 of the context, logits: the tokens after which
                \*  the scores were computed, committed, unknown: _kvUnknown]
    cancelled,  \* _cancelled
    pc,         \* "generate": a call of synthesizeToQueue is in its loop
    noThink,    \* its argument
    reply       \* the pieces of its reply

vars == <<history, ctx, cancelled, pc, noThink, reply>>

Message(role, text) == [role |-> role, text |-> text]
NoContext == [kv |-> <<>>, logits |-> <<>>, committed |-> <<>>, unknown |-> FALSE]

Least(a, b) == IF a < b THEN a ELSE b

Init ==
    /\ history = <<>> /\ ctx = NoContext /\ cancelled = FALSE
    /\ pc = "idle" /\ noThink = FALSE /\ reply = <<>>

-----------------------------------------------------------------------------
(* getHistoryFormatted and tokenize: the tokens of history h.  With a header,
   the assistant's turn is opened, and an empty reasoning block prefilled; that
   block is not in the history of later calls. *)
Encode(m) == <<m.role>> \o Tokenize(m.text) \o <<"end">>
Header(nt) == IF nt THEN <<"assistant", "noThink">> ELSE <<"assistant">>
Tokens(h, header) == FlattenSeq([i \in DOMAIN h |-> Encode(h[i])]) \o header

(* The history without its n oldest turns; the system prompt stays. *)
Dropped(h, n) == <<h[1]>> \o SubSeq(h, 2 + 2 * n, Len(h))

(* The turns to be dropped before h fits, if it can. *)
Drops(h, header) ==
    LET enough(n) == \/ Len(Tokens(Dropped(h, n), header)) <= Budget
                     \/ Len(Dropped(h, n)) < 4
    IN  CHOOSE n \in 0 .. Len(h) : enough(n) /\ \A m \in 0 .. n - 1 : ~enough(m)

CommonPrefix(s, t) ==
    CHOOSE n \in 0 .. Least(Len(s), Len(t)) :
        /\ \A i \in 1 .. n : s[i] = t[i]
        /\ n < Least(Len(s), Len(t)) => s[n + 1] # t[n + 1]

(* How many leading tokens the context need not decode again.  If it holds them
   all, the last one is decoded again for its logits.  Mutant: it is not. *)
SameCount_All(tokens, committed) == CommonPrefix(tokens, committed)
SameCount(tokens, committed) ==
    LET same == CommonPrefix(tokens, committed)
    IN  IF same = Len(tokens) /\ same > 0 THEN same - 1 ELSE same

(* What is kept of context c before tokens are decoded: the common part, or
   nothing if it is not known or cannot be separated. *)
Kept(c, tokens) ==
    {IF c.unknown THEN 0 ELSE SameCount(tokens, c.committed), 0}

Cut(c, n) ==
    [kv |-> SubSeq(c.kv, 1, n), logits |-> c.logits,
     committed |-> SubSeq(c.committed, 1, n), unknown |-> FALSE]

(* decode: positions go on from the committed ones.  Mutant: a failure that
   leaves the context in an unknown state is forgotten. *)
Decoded(c, ts) ==
    IF ts = <<>> THEN c
    ELSE [kv |-> c.kv \o ts, logits |-> c.kv \o ts,
          committed |-> c.committed \o ts, unknown |-> c.unknown]
DecodeFailed_Known(c, ts, n) ==
    [kv |-> c.kv \o SubSeq(ts, 1, n), logits |-> c.logits,
     committed |-> c.committed, unknown |-> c.unknown]
DecodeFailed(c, ts, n) ==
    [kv |-> c.kv \o SubSeq(ts, 1, n), logits |-> c.logits,
     committed |-> c.committed, unknown |-> TRUE]

(* decodeAllHistory on history h and context c: success, a failure to tokenize
   (after some turns were dropped, perhaps), or a failure to decode. *)
DecodeAllHistory(h, header, c) ==
    LET kept   == Dropped(h, Drops(h, header))
        tokens == Tokens(kept, header)
        todo(n) == SubSeq(tokens, n + 1, Len(tokens))
    IN  {[ok |-> TRUE, history |-> kept, ctx |-> Decoded(Cut(c, n), todo(n))] :
            n \in Kept(c, tokens)}
        \cup
        {[ok |-> FALSE, history |-> Dropped(h, n), ctx |-> c] :
            n \in 0 .. Drops(h, header)}
        \cup
        UNION {{[ok |-> FALSE, history |-> kept,
                 ctx |-> DecodeFailed(Cut(c, n), todo(n), k)] :
                    k \in 0 .. Len(todo(n))} : n \in Kept(c, tokens)}

-----------------------------------------------------------------------------
(* createFreshContext *)
CreateFreshContext(p) ==
    /\ pc = "idle"
    /\ \E r \in DecodeAllHistory(<<Message("system", <<p>>)>>, <<>>, NoContext) :
           history' = r.history /\ ctx' = r.ctx
    /\ UNCHANGED <<cancelled, pc, noThink, reply>>

(* warmup: whether it succeeds or not, the context is empty afterwards. *)
Warmup ==
    /\ pc = "idle"
    /\ ctx' = [kv |-> <<>>, logits |-> <<"filler">>, committed |-> <<>>,
               unknown |-> TRUE]
    /\ UNCHANGED <<history, cancelled, pc, noThink, reply>>

(* CommitReply: the reply goes into the history however the call ends.  Mutant:
   only if there is one. *)
WithReply_NotEmpty(h, text) ==
    IF text = <<>> THEN h ELSE Append(h, Message("assistant", text))
WithReply(h, text) == Append(h, Message("assistant", text))

(* synthesizeToQueue up to its loop.  The client has created a context before
   (llmvoice.h:50). *)
Synthesize(p, nt) ==
    /\ pc = "idle" /\ history # <<>> /\ Len(history) + 2 <= MaxHistory
    /\ \E r \in DecodeAllHistory(Append(history, Message("user", <<p>>)),
                                 Header(nt), ctx) :
           /\ ctx' = r.ctx
           /\ IF r.ok
              THEN history' = r.history /\ pc' = "generate" /\ noThink' = nt
              ELSE history' = WithReply(r.history, <<>>) /\ UNCHANGED <<pc, noThink>>
    /\ UNCHANGED <<cancelled, reply>>

(* One round of the loop: the token goes out, then it is decoded.  Mutant: one
   round too many. *)
Generate_OneMore(t) ==
    /\ pc = "generate" /\ Len(reply) <= MaxTokens /\ ~cancelled
    /\ ctx' = Decoded(ctx, <<t>>)
    /\ reply' = Append(reply, t)
    /\ UNCHANGED <<history, cancelled, pc, noThink>>
Generate(t) ==
    /\ pc = "generate" /\ Len(reply) < MaxTokens /\ ~cancelled
    /\ \/ /\ ctx' = Decoded(ctx, <<t>>)
          /\ reply' = Append(reply, t)
          /\ UNCHANGED <<history, pc>>
       \/ /\ \E n \in 0 .. 1 : ctx' = DecodeFailed(ctx, <<t>>, n)
          /\ history' = WithReply(history, Append(reply, t))
          /\ reply' = <<>> /\ pc' = "idle"
    /\ UNCHANGED <<cancelled, noThink>>

(* The loop ends: token limit, cancel, end of generation, or a token without a
   text. *)
Finish ==
    /\ pc = "generate"
    /\ history' = WithReply(history, reply)
    /\ reply' = <<>> /\ pc' = "idle"
    /\ UNCHANGED <<ctx, cancelled, noThink>>

(* cancel, at any time; resetCancel, while no call is running. *)
Cancel == cancelled' = TRUE /\ UNCHANGED <<history, ctx, pc, noThink, reply>>
ResetCancel ==
    /\ pc = "idle" /\ cancelled' = FALSE
    /\ UNCHANGED <<history, ctx, pc, noThink, reply>>

Next ==
    \/ \E p \in Prompts : CreateFreshContext(p)
    \/ \E p \in Prompts, nt \in BOOLEAN : Synthesize(p, nt)
    \/ \E t \in Vocabulary : Generate(t)
    \/ Warmup \/ Finish \/ Cancel \/ ResetCancel

Spec == Init /\ [][Next]_vars

-----------------------------------------------------------------------------
Roles == {"system", "user", "assistant"}

TypeOK ==
    /\ \A i \in DOMAIN history :
           history[i].role \in Roles /\ history[i].text \in Seq(Prompts \cup Vocabulary)
    /\ ctx.unknown \in BOOLEAN
    /\ cancelled \in BOOLEAN /\ noThink \in BOOLEAN
    /\ pc \in {"idle", "generate"}
    /\ reply \in Seq(Vocabulary) /\ Len(reply) <= MaxTokens

(* Whatever failed before: unless the backend knows that it does not know, the
   context holds exactly what the backend believes. *)
KvIsCommitted == ~ctx.unknown => ctx.kv = ctx.committed

(* Each token is sampled from scores computed after exactly the chat history
   and the reply so far, and the context holds just these. *)
ModelSeesChat ==
    pc = "generate" =>
        /\ ctx.kv = Tokens(history, Header(noThink)) \o reply
        /\ ctx.logits = ctx.kv

(* The history is the system prompt, then user and assistant in turn; a call in
   its loop answers the last message, and no call leaves a prompt unanswered. *)
TurnsPaired ==
    /\ \A i \in DOMAIN history :
           history[i].role = CASE i = 1           -> "system"
                               [] i > 1 /\ i % 2 = 0 -> "user"
                               [] i > 1 /\ i % 2 = 1 -> "assistant"
    /\ history # <<>> => (Len(history) % 2 = 0 <=> pc = "generate")
=============================================================================

---------------------------- MODULE EncoderCache ----------------------------
(***************************************************************************)
(* encode_images of dvlm/client.py: the images of a request are looked up  *)
(* in a cache that the client's requests share, the missing ones are       *)
(* spread over the encoder peers, and their embeddings are cached.  One    *)
(* event loop runs the requests: a step lasts from await to await.  An     *)
(* encoder is stateless, so an embedding is told by the image it is of.    *)
(* SwarmBackend.encode of dvlm/dreamer/client.py spreads the frames of a   *)
(* batch over the same encoders, in chunks and without a cache.            *)
(***************************************************************************)
EXTENDS Naturals, SequencesExt

CONSTANTS
  Images,         \* images by content, that is, by their key
  Encoders,       \* the encoder peers
  Reliable,       \* encoders that are always listed and never fail
  RegistryFaults, \* whether a registry lookup may fail
  Requests,       \* concurrent requests of the client
  MaxImages,      \* images of a request
  Batches,        \* batches of frames that a policy observes
  CacheSize,      \* encoder_cache_size
  MaxAsked        \* encode_images calls

CacheBounds ==
  /\ IsFiniteSet(Encoders) /\ Reliable \subseteq Encoders /\ RegistryFaults \in BOOLEAN
  /\ Batches \subseteq Seq(Images) \ {<< >>}
  /\ {MaxImages, CacheSize, MaxAsked} \subseteq Nat

ASSUME CacheBoundsAreValid == CacheBounds

VARIABLES
  cache,   \* entries [key, emb], the least recently used first
  req,     \* the state of each request
  asked    \* calls so far

vars == <<cache, req, asked>>

Outcomes == {"answered", "no route", "lookup failed", "key error"}

NewRequest ==
  [pc |-> "new", batch |-> FALSE, images |-> << >>, missing |-> << >>,
   encoders |-> << >>, inputs |-> << >>, tries |-> << >>, results |-> << >>,
   answer |-> << >>]

Keys(c) == {c[i].key : i \in DOMAIN c}

Position(c, image) == CHOOSE i \in DOMAIN c : c[i].key = image

Embedding(c, image) == c[Position(c, image)].emb

-----------------------------------------------------------------------------
(***************************************************************************)
(* The OrderedDict.  An assignment to a key it holds keeps its place.      *)
(***************************************************************************)
Assigned(c, e) ==
  IF e.key \in Keys(c)
  THEN [i \in DOMAIN c |-> IF c[i].key = e.key THEN e ELSE c[i]]
  ELSE Append(c, e)

EvictBefore(c, e) ==             \* mutant: the size is tested before the insertion
  Assigned(IF Len(c) > CacheSize THEN Tail(c) ELSE c, e)

Inserted(c, e) ==
  LET d == Assigned(c, e) IN IF Len(d) > CacheSize THEN Tail(d) ELSE d

MovedToEnd(c, image) ==
  LET i == Position(c, image) IN Append(RemoveAt(c, i), c[i])

(***************************************************************************)
(* The last lines: every image is moved to the end, up to one that is      *)
(* gone, and then the embeddings are read.                                 *)
(***************************************************************************)
Found(c, images) ==
  LET gone == {i \in DOMAIN images : images[i] \notin Keys(c)} IN
  IF gone = {} THEN images ELSE SubSeq(images, 1, Min(gone) - 1)

Settle(t, q, c) ==
  LET found == Found(c, q.images)
      d == FoldLeft(MovedToEnd, c, found) IN
  /\ cache' = d
  /\ req' = [req EXCEPT ![t] =
       IF found = q.images
       THEN [q EXCEPT !.pc = "answered",
                      !.answer = [i \in DOMAIN q.images |-> Embedding(d, q.images[i])]]
       ELSE [q EXCEPT !.pc = "key error"]]

-----------------------------------------------------------------------------
\* The positions of the images that the cache lacks, in their order.
Missing(images) ==
  FoldLeft(LAMBDA m, i : IF images[i] \in Keys(cache) THEN m ELSE Append(m, i),
           << >>, [i \in DOMAIN images |-> i])

\* A request that hits with every image never awaits.
Ask(t, images) ==
  LET missing == Missing(images)
      q == [NewRequest EXCEPT !.pc = "lookup", !.images = images, !.missing = missing] IN
  /\ req[t].pc \in Outcomes \cup {"new"}
  /\ asked < MaxAsked
  /\ asked' = asked + 1
  /\ IF missing = << >>
     THEN Settle(t, q, cache)
     ELSE req' = [req EXCEPT ![t] = q] /\ UNCHANGED cache

\* SwarmBackend.encode, up to its first await.
Observe(t, frames) ==
  /\ req[t].pc \in Outcomes \cup {"new"}
  /\ asked < MaxAsked
  /\ asked' = asked + 1
  /\ req' = [req EXCEPT ![t] =
       [NewRequest EXCEPT !.pc = "lookup", !.batch = TRUE, !.images = frames]]
  /\ UNCHANGED cache

\* s.tensor_split(n): the first Len(s) % n chunks are one longer.
Split(s, n) ==
  LET size == Len(s) \div n
      from(k) == (k - 1) * size + Min({k - 1, Len(s) % n})
  IN  [k \in 1 .. n |-> SubSeq(s, from(k) + 1, from(k + 1))]

\* What is sent to the encoders: the missing images one by one, or a batch in chunks.
Inputs(q, encoders) ==
  IF q.batch
  THEN Split(q.images, Min({Len(encoders), Len(q.images)}))
  ELSE [k \in DOMAIN q.missing |-> <<q.images[q.missing[k]]>>]

\* The listed encoders, the fastest first; one call for each input.
Lookup(t, encoders) ==
  LET q == req[t]  inputs == Inputs(q, encoders) IN
  /\ q.pc = "lookup"
  /\ req' = [req EXCEPT ![t] =
       IF encoders = << >>
       THEN [q EXCEPT !.pc = "no route"]
       ELSE [q EXCEPT !.pc = "encoding", !.encoders = encoders, !.inputs = inputs,
                      !.tries = [k \in DOMAIN inputs |-> 0],
                      !.results = [k \in DOMAIN inputs |-> << >>]]]
  /\ UNCHANGED <<cache, asked>>

LookupFails(t) ==
  /\ RegistryFaults
  /\ req[t].pc = "lookup"
  /\ req' = [req EXCEPT ![t].pc = "lookup failed"]
  /\ UNCHANGED <<cache, asked>>

SameEncoder(q, k) == q.encoders[SeqMod(k, Len(q.encoders))]  \* mutant: no next one

\* encode_on_pool: the encoder that is asked for the k-th input.
Encoder(q, k) == q.encoders[SeqMod(k + q.tries[k], Len(q.encoders))]

Waiting(q, k) == q.pc = "encoding" /\ k \in DOMAIN q.inputs /\ q.results[k] = << >>

PairInOrder(q) ==                \* mutant: the k-th result goes to the k-th image
  [k \in DOMAIN q.missing |-> [key |-> q.images[k], emb |-> q.results[k][1]]]

\* zip(missing, results)
Paired(q) ==
  [k \in DOMAIN q.missing |-> [key |-> q.images[q.missing[k]], emb |-> q.results[k][1]]]

\* The last answer ends gather(): the results of a batch are concatenated,
\* those of a request for images are cached and read back at once.
Encoded(t, k) ==
  LET q == [req[t] EXCEPT !.results[k] = req[t].inputs[k]] IN
  /\ Waiting(req[t], k)
  /\ IF \E m \in DOMAIN q.inputs : Waiting(q, m)
     THEN req' = [req EXCEPT ![t] = q] /\ UNCHANGED cache
     ELSE IF q.batch
     THEN /\ req' = [req EXCEPT ![t] =
               [q EXCEPT !.pc = "answered", !.answer = FlattenSeq(q.results)]]
          /\ UNCHANGED cache
     ELSE Settle(t, q, FoldLeft(Inserted, cache, Paired(q)))
  /\ UNCHANGED asked

\* The next encoder is tried; one image that nobody encodes ends the request.
EncoderFails(t, k) ==
  LET q == req[t] IN
  /\ Waiting(q, k)
  /\ Encoder(q, k) \notin Reliable
  /\ req' = [req EXCEPT ![t] = [q EXCEPT
       !.tries[k] = @ + 1,
       !.pc = IF q.tries[k] + 1 < Len(q.encoders) THEN "encoding" ELSE "no route"]]
  /\ UNCHANGED <<cache, asked>>

-----------------------------------------------------------------------------
Listings == UNION {SetToSeqs(S) : S \in {T \in SUBSET Encoders : Reliable \subseteq T}}

Init ==
  /\ cache = << >>
  /\ req = [t \in Requests |-> NewRequest]
  /\ asked = 0

Next ==
  \E t \in Requests :
    \/ \E images \in BoundedSeq(Images, MaxImages) : images # << >> /\ Ask(t, images)
    \/ \E frames \in Batches : Observe(t, frames)
    \/ \E encoders \in Listings : Lookup(t, encoders)
    \/ LookupFails(t)
    \/ \E k \in DOMAIN req[t].inputs : Encoded(t, k) \/ EncoderFails(t, k)

Spec == Init /\ [][Next]_vars

-----------------------------------------------------------------------------
(***************************************************************************)
(* Types.  The cache never outgrows its size and holds an image once.      *)
(***************************************************************************)
TypeOK ==
  /\ cache \in Seq([key : Images, emb : Images])
  /\ Len(cache) <= CacheSize
  /\ Cardinality(Keys(cache)) = Len(cache)
  /\ asked \in 0 .. MaxAsked
  /\ \A t \in Requests :
       LET q == req[t] IN
       /\ q.pc \in Outcomes \cup {"new", "lookup", "encoding"}
       /\ q.images \in Seq(Images) /\ q.answer \in Seq(Images)
       /\ q.encoders \in Seq(Encoders)
       /\ ToSet(q.missing) \subseteq DOMAIN q.images
       /\ q.pc = "encoding" =>
            /\ DOMAIN q.results = DOMAIN q.inputs
            /\ \A k \in DOMAIN q.tries : q.tries[k] < Len(q.encoders)

(***************************************************************************)
(* A request is answered with the embeddings of its own images, in their   *)
(* order, whichever encoders failed and whoever else uses the cache        *)
(* ("[1, n_images, C, H, W] -> [n_images, tokens_per_image, hidden]"), and *)
(* a batch with those of all its frames, however many encoders split it.   *)
(***************************************************************************)
AnswersOwn ==
  \A t \in Requests : req[t].pc = "answered" => req[t].answer = req[t].images

(***************************************************************************)
(* "Each image retries on the next encoder if one fails": a request is not *)
(* lost to failing encoders as long as one is well.                        *)
(***************************************************************************)
FailsOver ==
  Reliable # {} => \A t \in Requests : req[t].pc # "no route"

(***************************************************************************)
(* A request whose images fit into the cache is answered when every        *)
(* encoder and the registry are well and the client does nothing else.     *)
(***************************************************************************)
FittingIsAnswered ==
  Reliable = Encoders /\ ~RegistryFaults /\ Cardinality(Requests) = 1 =>
    \A t \in Requests :
      Cardinality(ToSet(req[t].images)) <= CacheSize => req[t].pc # "key error"

=============================================================================

---------------------------- MODULE TextureCache ----------------------------
(***************************************************************************)
(* rsx/Cache.h and ModificationMap.h as the RSX uses them: the textures    *)
(* the GPU has copies of, and how the RSX thread learns that guest memory  *)
(* under a copy was written.                                               *)
(*                                                                         *)
(* The writers are the threads of the guest.  A store writes, then marks   *)
(* its page and the next one; writeMemory marks its pages, then writes     *)
(* them.  They run at any time beside the one RSX thread, which for each   *)
(* draw loads the textures in use (updateTextures), then asks for each     *)
(* cached texture whether a page under it is marked (watchTextureCache),   *)
(* and then clears the marks (resetCacheWatch).  Between draws it writes   *)
(* guest memory itself and invalidates what it wrote.                      *)
(*                                                                         *)
(* What is in a page does not matter, only whether a copy is older than    *)
(* it.  The pages under one texture are looked at, and cleared, in one     *)
(* step; a line of a 2D copy and a line of writeMemory are as long as a    *)
(* page.                                                                   *)
(***************************************************************************)
EXTENDS Integers, FiniteSets

CONSTANTS
  Pages,         \* the pages of the modification map, 1 to some number
  Textures,      \* the keys of the cache
  Span,          \* [Textures -> the pages the texture occupies]
  Stores,        \* the threads that store
  Copies,        \* the threads that call writeMemory
  MaxSize,       \* the most pages one call or command writes
  Megabyte       \* the pages that transferImage invalidates

ASSUME TextureAssumption ==
  /\ IsFiniteSet(Pages) /\ Pages = 1 .. Cardinality(Pages)
  /\ Span \in [Textures -> (SUBSET Pages) \ {{}}]
  /\ MaxSize \in Nat \ {0} /\ Megabyte \in Nat \ {0}
  /\ Stores \cap Copies = {}

VARIABLES
  cached,        \* Cache::_store, the textures with a copy
  dirty,         \* Cache::_dirty
  marked,        \* ModificationMap::_pages
  stale,         \* the pairs of a cached texture and a page written since its copy
  pass,          \* what the RSX thread does for the draw it is at, or "none"
  todo,          \* the textures it has yet to do that for
  writing,       \* [Stores \cup Copies -> the pages its call has yet to do]
  late,          \* the pages marked since watchTextureCache began
  wiped          \* the pages cleared since a running writeMemory marked them

cacheVars == <<cached, dirty>>
drawVars == <<pass, todo>>
textureVars ==
  <<cacheVars, marked, stale, drawVars, writing, late, wiped>>

Writers == Stores \cup Copies

range(first, n) == {p \in Pages : first <= p /\ p < first + n}

\* The pages that marked and reset go through: a texture ends where a page ends,
\* and they take in the page that begins there.
scanned(t) == Span[t] \cup {p \in Pages : p - 1 \in Span[t]}

TextureInit ==
  /\ cached = {} /\ dirty = {} /\ marked = {} /\ stale = {}
  /\ pass = "none" /\ todo = {}
  /\ writing = [w \in Writers |-> {}]
  /\ late = {} /\ wiped = {}

\* Guest memory changes in the pages: what is cached of them is older now.
written(pages) ==
  stale' = stale \cup {pair \in cached \X pages : pair[2] \in Span[pair[1]]}

mark(pages) ==
  /\ marked' = marked \cup pages
  /\ late' = IF pass \in {"watch", "reset"} THEN late \cup pages ELSE late
  /\ wiped' = wiped \ pages

under(pages) == {t \in cached : Span[t] \cap pages # {}}

invalidateCaches(pages) == dirty' = dirty \cup under(pages)

-----------------------------------------------------------------------------
(* The writers                                                             *)

\* MainMemory::store up to the unlock of the line; it may cross into a second page.
store(w) ==
  /\ writing[w] = {}
  /\ \E p \in Pages, n \in {1, 2} :
       /\ written(range(p, n))
       /\ writing' = [writing EXCEPT ![w] = range(p, n)]
  /\ UNCHANGED <<cacheVars, marked, drawVars, late, wiped>>

\* The last line of store marks the page of the address and the next one.
storeMarks(w) ==
  /\ writing[w] # {}
  /\ \E p \in writing[w] :
       /\ \A q \in writing[w] : p <= q
       /\ mark(range(p, 2))
  /\ writing' = [writing EXCEPT ![w] = {}]
  /\ UNCHANGED <<cacheVars, stale, drawVars>>

writeMemory(w) ==
  /\ writing[w] = {}
  /\ \E p \in Pages, n \in 1 .. MaxSize :
       /\ mark(range(p, n))
       /\ writing' = [writing EXCEPT ![w] = range(p, n)]
  /\ UNCHANGED <<cacheVars, stale, drawVars>>

\* One line of writeMemory, from the front.
writesLine(w) ==
  /\ \E p \in writing[w] :
       /\ \A q \in writing[w] : p <= q
       /\ written({p})
       /\ writing' = [writing EXCEPT ![w] = @ \ {p}]
       /\ wiped' = wiped \cap UNION {writing'[v] : v \in Copies}
  /\ UNCHANGED <<cacheVars, marked, drawVars, late>>

-----------------------------------------------------------------------------
(* A draw                                                                  *)

beginDraw ==
  /\ pass = "none"
  /\ pass' = "update"
  /\ todo' \in SUBSET Textures
  /\ UNCHANGED <<cacheVars, marked, stale, writing, late, wiped>>

\* getTextureFromCache for one sampler that is in use: a texture that is not
\* there is inserted, which makes it dirty, and a dirty one is loaded.
getTextureFromCache ==
  /\ pass = "update"
  /\ \E t \in todo :
       /\ todo' = todo \ {t}
       /\ cached' = cached \cup {t}
       /\ dirty' = dirty \ {t}
       /\ stale' = IF t \in cached \ dirty THEN stale
                   ELSE {pair \in stale : pair[1] # t}
  /\ UNCHANGED <<marked, pass, writing, late, wiped>>

beginWatch ==
  /\ pass = "update" /\ todo = {}
  /\ pass' = "watch" /\ todo' = cached /\ late' = {}
  /\ UNCHANGED <<cacheVars, marked, stale, writing, wiped>>

\* Mutant: one pass that asks for the marks and clears them.
watchAndReset ==
  /\ pass = "watch"
  /\ \E t \in todo :
       /\ todo' = todo \ {t}
       /\ dirty' = IF scanned(t) \cap marked # {} THEN dirty \cup {t} ELSE dirty
       /\ marked' = marked \ scanned(t)
  /\ UNCHANGED <<cached, stale, pass, writing, late, wiped>>

watchTextureCache ==
  /\ pass = "watch"
  /\ \E t \in todo :
       /\ todo' = todo \ {t}
       /\ dirty' = IF scanned(t) \cap marked # {} THEN dirty \cup {t} ELSE dirty
  /\ UNCHANGED <<cached, marked, stale, pass, writing, late, wiped>>

beginReset ==
  /\ pass = "watch" /\ todo = {}
  /\ pass' = "reset" /\ todo' = cached
  /\ UNCHANGED <<cacheVars, marked, stale, writing, late, wiped>>

resetCacheWatch ==
  /\ pass = "reset"
  /\ \E t \in todo :
       /\ todo' = todo \ {t}
       /\ marked' = marked \ scanned(t)
       /\ wiped' = wiped \cup (scanned(t) \cap UNION {writing[w] : w \in Copies})
  /\ UNCHANGED <<cacheVars, stale, pass, writing, late>>

endDraw ==
  /\ pass = "reset" /\ todo = {}
  /\ pass' = "none" /\ late' = {}
  /\ UNCHANGED <<cacheVars, marked, stale, todo, writing, wiped>>

-----------------------------------------------------------------------------
(* Commands that write guest memory                                        *)

\* Color: writeMemory, on the RSX thread, and an invalidation of what it wrote.
Color ==
  /\ pass = "none"
  /\ \E p \in Pages : mark({p}) /\ written({p}) /\ invalidateCaches({p})
  /\ UNCHANGED <<cached, drawVars, writing>>

\* The GPU writes the image, and a megabyte is invalidated whatever its size.
transfers(first, n) ==
  /\ pass = "none"
  /\ written(range(first, n))
  /\ invalidateCaches(range(first, Megabyte))
  /\ UNCHANGED <<cached, marked, drawVars, writing, late, wiped>>
transferImage == \E p \in Pages, n \in 1 .. MaxSize : transfers(p, n)

\* The destination is moved to the next line before the line is invalidated.
copiesLines(first, n) ==
  /\ pass = "none"
  /\ written(range(first, n))
  /\ invalidateCaches(range(first + 1, n))
  /\ UNCHANGED <<cached, marked, drawVars, writing, late, wiped>>
startCopy2d == \E p \in Pages, n \in 1 .. MaxSize : copiesLines(p, n)

RsxDraws ==
  \/ beginDraw \/ getTextureFromCache \/ beginWatch \/ watchTextureCache
  \/ beginReset \/ resetCacheWatch \/ endDraw

TextureNext ==
  \/ \E w \in Stores : store(w) \/ storeMarks(w)
  \/ \E w \in Copies : writeMemory(w) \/ writesLine(w)
  \/ RsxDraws \/ Color \/ transferImage \/ startCopy2d

TextureSpec == TextureInit /\ [][TextureNext]_textureVars

-----------------------------------------------------------------------------
(* Properties                                                              *)

\* Nobody will ever load the texture again for what was written to the page: it
\* is not dirty, no mark will make it so, and no store is about to leave one.
forgotten(t, p) ==
  /\ <<t, p>> \in stale
  /\ t \notin dirty
  /\ scanned(t) \cap marked = {}
  /\ \A w \in Stores : p \notin writing[w]

\* The places where the code is known to forget a write: the reset clears marks
\* that were made after the watch had begun; a line of writeMemory is written
\* after a reset cleared its mark; the first line of a 2D copy and what a
\* transfer writes beyond its first megabyte are not invalidated.
knownGap(t, p) ==
  \/ pass = "reset" /\ todo' # todo /\ late \cap scanned(t) # {}
  \/ p \in wiped /\ \E w \in Copies : p \in writing[w] \ writing'[w]
  \/ \E first \in Pages, n \in 1 .. MaxSize :
       \/ copiesLines(first, n) /\ p = first
       \/ transfers(first, n) /\ p >= first + Megabyte

\* A write under a cached texture is forgotten in those places only: neither the
\* order of write and mark in store, nor a store that crosses into another page,
\* nor textures that share a page, loses one.
OnlyKnownGaps ==
  [][\A t \in Textures, p \in Pages :
       (forgotten(t, p))' /\ ~forgotten(t, p) => knownGap(t, p)]_textureVars
=============================================================================

------------------------------ MODULE CString ------------------------------
(***************************************************************************)
(* lib/string.c over a small memory. A function that only reads is an       *)
(* operator of the memory m, its loop a recursive function over places;     *)
(* a function that writes is also an action. strtok_r keeps a position      *)
(* between calls.                                                           *)
(*                                                                          *)
(* A set of delimiters, or of characters to skip or to stop at, is a string *)
(* literal outside of the memory: the set of its characters. Callers pass   *)
(* ranges that lie in the memory, and strings that end in it.               *)
(***************************************************************************)
EXTENDS Integers, Sequences, FiniteSetsExt

CONSTANTS
  Size,        \* bound: the memory's bytes
  Bytes,       \* bound: the values that occur in it
  Ints,        \* the int arguments of memset, memchr, strchr and strrchr
  CharSets,    \* the literals
  MaxTokens,   \* bound: the calls of strtok_r for one string
  NULL

NUL == 0

ASSUME CStringAssumption ==
  /\ Size \in Nat \ {0}
  /\ NUL \in Bytes /\ Bytes \subseteq 0 .. 255
  /\ Ints \subseteq Int
  /\ CharSets \subseteq SUBSET (Bytes \ {NUL})
  /\ MaxTokens \in Nat
  /\ NULL \notin 0 .. Size

Cells == 0 .. Size - 1
Pointers == 0 .. Size    \* up to one past the end

VARIABLES
  mem,
  save_ptr,    \* where strtok_r goes on, NULL without a string
  original,    \* the memory when strtok_r was given the string (history)
  tokens       \* what its calls returned since (history)

vars == <<mem, save_ptr, original, tokens>>

(* The conversion of an int to unsigned char, and to char on AArch64.       *)
Char(i) == i % 256

Span(p, n) == p .. p + n - 1
InMemory(p, n) == p \in Pointers /\ p + n <= Size

(* Where a loop stops that counts up from i: at the first of the places     *)
(* where it ends, or at n.                                                  *)
Up(i, n, ends) ==
  LET at[k \in i .. n] == IF k = n \/ k \in ends THEN k ELSE at[k + 1] IN at[i]

----------------------------------------------------------------------------
(* Blocks                                                                   *)

memcpy(m, dst, src, size) ==
  LET copied[i \in 0 .. size] ==
        IF i = 0 THEN m
        ELSE [copied[i - 1] EXCEPT ![dst + i - 1] = copied[i - 1][src + i - 1]]
  IN  copied[size]

copy_backwards(m, dst, src, size) ==
  LET copied[i \in 0 .. size] ==
        IF i = 0 THEN m
        ELSE [copied[i - 1] EXCEPT ![dst + size - i] = copied[i - 1][src + size - i]]
  IN  copied[size]

(* Always from front to back.                                               *)
memmove_forward(m, dst, src, size) == memcpy(m, dst, src, size)

(* Returned, with dst < src, is the end of the block and not dst.          *)
memmove(m, dst, src, size) ==
  IF dst < src THEN memcpy(m, dst, src, size) ELSE copy_backwards(m, dst, src, size)

memset(m, dst, value, size) ==
  [c \in Cells |-> IF c \in Span(dst, size) THEN Char(value) ELSE m[c]]

bzero(m, b, size) == memset(m, b, 0, size)

memcmp(m, a, b, size) ==
  LET i == Up(0, size, { k \in 0 .. size - 1 : m[a + k] # m[b + k] }) IN
  IF i = size THEN 0 ELSE IF m[a + i] > m[b + i] THEN 1 ELSE -1

memchr(m, block, ch, size) ==
  LET p == Up(block, block + size, { q \in Cells : m[q] = Char(ch) }) IN
  IF p = block + size THEN NULL ELSE p

----------------------------------------------------------------------------
(* Strings                                                                  *)

Terminators(m) == { q \in Cells : m[q] = NUL }
IsString(m, p) == p \in Cells /\ \E q \in Terminators(m) : q >= p

strlen(m, string) == Up(string, Size, Terminators(m)) - string

strnlen(m, string, maxlen) == Up(string, string + maxlen, Terminators(m)) - string

(* How far from a and b a string ends, or both differ.                      *)
Mismatches(m, a, b) ==
  { k \in 0 .. Size - 1 - Max({a, b}) : m[a + k] = NUL \/ m[a + k] # m[b + k] }

(* Compares as char would where that is signed.                             *)
strcmp_signed(m, a, b) ==
  LET value(c) == IF c > 127 THEN c - 256 ELSE c
      i == Up(0, Size, Mismatches(m, a, b))
  IN  IF value(m[a + i]) < value(m[b + i]) THEN -1
      ELSE IF value(m[a + i]) > value(m[b + i]) THEN 1 ELSE 0

strcmp(m, a, b) ==
  LET i == Up(0, Size, Mismatches(m, a, b))
  IN  IF m[a + i] < m[b + i] THEN -1 ELSE IF m[a + i] > m[b + i] THEN 1 ELSE 0

strchr(m, string, c) ==
  LET p == Up(string, Size, { q \in Cells : m[q] = Char(c) \/ m[q] = NUL }) IN
  IF m[p] = Char(c) THEN p ELSE NULL

(* last[s] is p when the loop is at s.                                      *)
strrchr(m, string, c) ==
  LET end == string + strlen(m, string)
      last[s \in string .. end] ==
        IF s = string THEN NULL ELSE IF m[s - 1] = Char(c) THEN s - 1 ELSE last[s - 1]
  IN  last[end]

(* strchr of a literal is not NULL: it finds the literal's own terminator.  *)
OneOf(literal, c) == c \in literal \/ c = NUL

(* Where an end or a character that is one of these, or is not, comes.      *)
UpToOneOf(m, p, literal) == Up(p, Size, { q \in Cells : OneOf(literal, m[q]) })
PastThese(m, p, literal) ==
  Up(p, Size, { q \in Cells : m[q] = NUL \/ ~ OneOf(literal, m[q]) })

strcspn(m, string, stop) == UpToOneOf(m, string, stop) - string

strspn(m, string, skip) == PastThese(m, string, skip) - string

strpbrk(m, string, stop) ==
  LET p == UpToOneOf(m, string, stop) IN IF m[p] = NUL THEN NULL ELSE p

strstr(m, haystack, needle) ==
  LET haystack_len == strlen(m, haystack)
      needle_len == strlen(m, needle)
      tries == haystack_len - needle_len + 1
      i == Up(0, tries, { k \in 0 .. tries - 1 : memcmp(m, haystack + k, needle, needle_len) = 0 })
  IN  IF haystack_len < needle_len \/ i = tries THEN NULL ELSE haystack + i

strlcpy(m, dst, src, size) ==
  LET dst_len == Min({strlen(m, src), size - 1}) IN
  IF size = 0 THEN m ELSE [memcpy(m, dst, src, dst_len) EXCEPT ![dst + dst_len] = NUL]

strlcat(m, dst, src, size) ==
  LET dst_len == strlen(m, dst)
      copy_cnt == Min({strlen(m, src), size - dst_len - 1})
      end == dst + dst_len
  IN  IF size = 0 \/ dst_len >= size THEN m
      ELSE [memcpy(m, end, src, copy_cnt) EXCEPT ![end + copy_cnt] = NUL]

----------------------------------------------------------------------------
(* What callers may ask for. strlcpy and strlcat copy with memcpy, so the   *)
(* source string must not lie where they write.                             *)

Disjoint(p, n, q, k) == Span(p, n) \cap Span(q, k) = {}

MayCopyString(m, dst, src, size) ==
  /\ IsString(m, src) /\ InMemory(dst, size)
  /\ Disjoint(dst, size, src, strlen(m, src) + 1)

MayAppendString(m, dst, src, size) ==
  /\ MayCopyString(m, dst, src, size)
  /\ IsString(m, dst)
  /\ Disjoint(dst, strlen(m, dst) + 1, src, strlen(m, src) + 1)

----------------------------------------------------------------------------
Init ==
  /\ mem = [c \in Cells |-> NUL]
  /\ save_ptr = NULL
  /\ original = mem
  /\ tokens = <<>>

Writes(m) ==
  /\ save_ptr = NULL
  /\ mem' = m /\ original' = m
  /\ UNCHANGED <<save_ptr, tokens>>

Fill ==
  \E dst \in Pointers, value \in Ints, size \in 0 .. Size :
    InMemory(dst, size) /\ Writes(memset(mem, dst, value, size))

Move ==
  \E dst, src \in Pointers, size \in 0 .. Size :
    /\ InMemory(dst, size) /\ InMemory(src, size)
    /\ \/ Writes(memmove(mem, dst, src, size))
       \/ Disjoint(dst, size, src, size) /\ Writes(memcpy(mem, dst, src, size))

CopyString ==
  \E dst, src \in Pointers, size \in 0 .. Size :
    \/ MayCopyString(mem, dst, src, size) /\ Writes(strlcpy(mem, dst, src, size))
    \/ MayAppendString(mem, dst, src, size) /\ Writes(strlcat(mem, dst, src, size))

(* Where the next call goes on, with the token's end already found.         *)
Behind_at_terminator(m, end) == end

(* The end of the string is not left behind.                                *)
Behind(m, end) == IF m[end] # NUL THEN end + 1 ELSE end

(* A call from position s on, after the calls in `before': the token lies   *)
(* from begin up to but without end; begin is NULL when none is left.       *)
TokenFrom(s, delimiters, before) ==
  LET begin == PastThese(mem, s, delimiters)
      end == UpToOneOf(mem, begin, delimiters)
      found == mem[begin] # NUL
  IN  /\ mem' = IF found THEN [mem EXCEPT ![end] = NUL] ELSE mem
      /\ save_ptr' = IF found THEN Behind(mem, end) ELSE begin
      /\ tokens' = Append(before, [begin |-> IF found THEN begin ELSE NULL, end |-> end,
                                   from |-> s, delimiters |-> delimiters])

strtok_r_first ==
  /\ save_ptr = NULL
  /\ \E s \in Cells, delimiters \in CharSets :
       /\ IsString(mem, s)
       /\ original' = mem
       /\ TokenFrom(s, delimiters, <<>>)

strtok_r_next ==
  /\ save_ptr # NULL
  /\ Len(tokens) < MaxTokens
  /\ UNCHANGED original
  /\ \E delimiters \in CharSets : TokenFrom(save_ptr, delimiters, tokens)

(* The caller asks for no more tokens.                                      *)
Leave ==
  /\ save_ptr # NULL
  /\ save_ptr' = NULL /\ original' = mem /\ tokens' = <<>>
  /\ UNCHANGED mem

Next == Fill \/ Move \/ CopyString \/ strtok_r_first \/ strtok_r_next \/ Leave

Spec == Init /\ [][Next]_vars

----------------------------------------------------------------------------
(* What is promised, from the memory as a whole                             *)

Length(m, p) == Min({ q \in Terminators(m) : q >= p }) - p
StringAt(m, p) == [i \in 1 .. Length(m, p) |-> m[p + i - 1]]
Strings == { p \in Cells : IsString(mem, p) }
First(S) == IF S = {} THEN NULL ELSE Min(S)
Prefix(s, n) == SubSeq(s, 1, Min({n, Len(s)}))

Copied(m, dst, src, size) ==
  [c \in Cells |-> IF c \in Span(dst, size) THEN m[src + c - dst] ELSE m[c]]

SameOutside(m, dst, size) == \A c \in Cells \ Span(dst, size) : m[c] = mem[c]

(* A block arrives whole however source and destination overlap; a string   *)
(* arrives cut to what fits with its terminator, which is always there; no  *)
(* byte outside of the destination changes.                                 *)
CopiesAreExact ==
  save_ptr = NULL =>
    \A dst, src \in Pointers, size \in 0 .. Size : InMemory(dst, size) =>
      /\ InMemory(src, size) =>
           /\ memmove(mem, dst, src, size) = Copied(mem, dst, src, size)
           /\ Disjoint(dst, size, src, size) =>
                memcpy(mem, dst, src, size) = Copied(mem, dst, src, size)
      /\ MayCopyString(mem, dst, src, size) =>
           LET m == strlcpy(mem, dst, src, size) IN
           /\ SameOutside(m, dst, size)
           /\ size > 0 => StringAt(m, dst) = Prefix(StringAt(mem, src), size - 1)
      /\ MayAppendString(mem, dst, src, size) =>
           LET m == strlcat(mem, dst, src, size)
               both == StringAt(mem, dst) \o StringAt(mem, src)
           IN  /\ SameOutside(m, dst, size)
               /\ StringAt(m, dst) = IF Length(mem, dst) >= size THEN StringAt(mem, dst)
                                     ELSE Prefix(both, size - 1)

(* Of all places that qualify the first is found (the last by strrchr), a   *)
(* terminator is part of its string for strchr, characters compare as       *)
(* unsigned, and a needle that ends with its haystack is found.             *)
SearchesAreExact ==
  save_ptr = NULL =>
    /\ \A a, b \in Pointers, size \in 0 .. Size : InMemory(a, size) =>
         /\ InMemory(b, size) =>
              LET i == First({ k \in 0 .. size - 1 : mem[a + k] # mem[b + k] }) IN
              memcmp(mem, a, b, size) =
                IF i = NULL THEN 0 ELSE IF mem[a + i] > mem[b + i] THEN 1 ELSE -1
         /\ \A c \in Ints :
              memchr(mem, a, c, size) = First({ p \in Span(a, size) : mem[p] = Char(c) })
    /\ \A p \in Strings :
         LET all == p .. p + Length(mem, p) IN
         /\ strlen(mem, p) = Length(mem, p)
         /\ \A n \in 0 .. Size : strnlen(mem, p, n) = Min({n, Length(mem, p)})
         /\ \A c \in Ints :
              LET hits == { q \in all : mem[q] = Char(c) } IN
              /\ strchr(mem, p, c) = First(hits)
              /\ strrchr(mem, p, c) =
                   IF Char(c) = NUL \/ hits = {} THEN NULL ELSE Max(hits)
         /\ \A S \in CharSets :
              /\ p + strspn(mem, p, S) = Min({ q \in all : mem[q] \notin S })
              /\ p + strcspn(mem, p, S) = Min({ q \in all : mem[q] \in S \/ mem[q] = NUL })
              /\ strpbrk(mem, p, S) = First({ q \in all : mem[q] \in S })
         /\ \A q \in Strings :
              LET s == StringAt(mem, p)
                  t == StringAt(mem, q)
                  less(u, v) == \E i \in 0 .. Len(u) :
                    /\ i < Len(v)
                    /\ \A k \in 1 .. i : u[k] = v[k]
                    /\ i = Len(u) \/ u[i + 1] < v[i + 1]
              IN  /\ strcmp(mem, p, q) = IF s = t THEN 0 ELSE IF less(s, t) THEN -1 ELSE 1
                  /\ strstr(mem, p, q) =
                       First({ r \in all : Prefix(StringAt(mem, r), Len(t)) = t })

(* Over a whole sequence of calls: each token is the next stretch of the    *)
(* string, as it was before the first call, without that call's delimiters; *)
(* none is skipped or returned twice, none is empty, NULL comes when there  *)
(* is no more, and what was returned stays a string of its own.             *)
TokensAreTheWords ==
  \A k \in DOMAIN tokens :
    LET t == tokens[k]
        last == tokens[k - 1]
        from == IF k = 1 THEN t.from
                ELSE IF original[last.end] = NUL THEN last.end ELSE last.end + 1
        rest == Span(from, Length(original, from))
        word == StringAt(mem, t.begin)
    IN  IF t.begin = NULL THEN \A q \in rest : original[q] \in t.delimiters
        ELSE /\ t.begin = First({ q \in rest : original[q] \notin t.delimiters })
             /\ word = [i \in 1 .. t.end - t.begin |-> original[t.begin + i - 1]]
             /\ \A i \in DOMAIN word : word[i] \notin t.delimiters
             /\ original[t.end] \in t.delimiters \cup {NUL}

=============================================================================

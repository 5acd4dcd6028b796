-------------------------------- MODULE Menus --------------------------------
(***************************************************************************)
(* Menus over objects with names (utils/menu.go): listed anew from the     *)
(* database each time round, sorted (utils/naturalsort), filtered, cut     *)
(* into pages (Paginate) and chosen from; and how a command finds an       *)
(* object by the beginning of its name (BestMatch).                        *)
(*                                                                         *)
(* A name is a sequence of characters; 0 to 9 are the digits, larger       *)
(* numbers are letters.  An entry is as wide as its name.                  *)
(***************************************************************************)
EXTENDS Integers, Sequences, SequencesExt, FiniteSetsExt, Functions

CONSTANTS
    Names,          \* that objects can have
    Filters,        \* what may be searched for; << >> is no search
    Width, Height,  \* of a page
    MaxObjects,     \* objects at the start of the run
    MaxInputs,      \* what the user enters in the run
    MaxChanges      \* changes others make in the run

\* A number of 19 digits need not fit a 64-bit integer, and on a page without a
\* row Paginate never ends.
ASSUME MenusAssumption ==
    /\ \A n \in Names : n \in Seq(Nat) /\ Len(n) < 19
    /\ \A f \in Filters : f \in Seq(Nat)
    /\ << >> \in Filters
    /\ Width \in Nat /\ Height \in Nat \ {0}
    /\ MaxObjects \in Nat /\ MaxInputs \in Nat /\ MaxChanges \in Nat

VARIABLES
    objects,        \* the names of the objects, in the order of the database
    menuAt,         \* "build", "input", "exited", "panicked"
    pageIndex, pageCount, filter,
    actions,        \* the entries of the menu
    options,        \* those it shows
    pages,          \* as Paginate has cut them
    chosen,         \* the object the user acted on last
    searched,       \* the user has searched (history)
    inputs, changes \* bounds

menusVars == <<objects, menuAt, pageIndex, pageCount, filter, actions, options, pages, chosen,
               searched, inputs, changes>>

MenusInit ==
    /\ objects \in SeqOf(Names, MaxObjects)
    /\ menuAt = "build"
    /\ pageIndex = 0 /\ pageCount = 1 /\ filter = << >>
    /\ actions = << >> /\ options = << >> /\ pages = << >> /\ chosen = << >>
    /\ searched = FALSE /\ inputs = 0 /\ changes = 0

MenusTypeOK ==
    /\ objects \in Seq(Names) /\ actions \in Seq(Names) /\ options \in Seq(Names)
    /\ menuAt \in {"build", "input", "exited", "panicked"}
    /\ pageIndex \in Int /\ pageCount \in Nat \ {0} /\ filter \in Filters
    /\ pages \in Seq(Seq(Names))
    /\ chosen \in Names \cup {<< >>} /\ searched \in BOOLEAN
    /\ inputs \in 0..MaxInputs /\ changes \in 0..MaxChanges

-----------------------------------------------------------------------------
(* Order of names                                                          *)

IsDigit(c) == c <= 9

\* The longest runs of digits and of other characters.
PiecesOf(name) ==
    LET Add(pieces, c) ==
            IF pieces # << >> /\ IsDigit(Last(Last(pieces))) = IsDigit(c)
            THEN Front(pieces) \o <<Append(Last(pieces), c)>>
            ELSE Append(pieces, <<c>>)
    IN  FoldLeft(Add, << >>, name)

Atoi(piece) == FoldLeft(LAMBDA n, c : 10 * n + c, 0, piece)

\* The order of strings.
Before(s, t) ==
    \/ IsStrictPrefix(s, t)
    \/ \E i \in DOMAIN s \cap DOMAIN t :
          SubSeq(s, 1, i - 1) = SubSeq(t, 1, i - 1) /\ s[i] < t[i]

\* The first pieces that differ decide; of a name and its continuation, the
\* longer one is less.
NaturalLessThan(a, b) ==
    LET p == PiecesOf(a)
        q == PiecesOf(b)
        differ == {i \in DOMAIN p : i > Len(q) \/ p[i] # q[i]}
    IN  /\ differ # {}
        /\ LET i == Min(differ) IN
           \/ i > Len(q)
           \/ i <= Len(q) /\ IF IsDigit(p[i][1]) /\ IsDigit(q[i][1])
                             THEN Atoi(p[i]) < Atoi(q[i])
                             ELSE Before(p[i], q[i])

\* The insertion sort of Go's sort.Sort for short lists.
Sorted(list) ==
    LET Insert(s, x) ==
            LET k == Max({0} \cup {i \in DOMAIN s : ~NaturalLessThan(x, s[i])})
            IN  InsertAt(s, k + 1, x)
    IN  FoldLeft(Insert, << >>, list)

-----------------------------------------------------------------------------
(* Pages                                                                   *)

Mentions(s, t) ==
    t = << >> \/ \E i \in DOMAIN s : IsPrefix(t, SubSeq(s, i, Len(s)))

FilterActions(list, f) ==
    FoldLeft(LAMBDA kept, n : IF Mentions(n, f) THEN Append(kept, n) ELSE kept, << >>, list)

Smaller(a, b) == IF a < b THEN a ELSE b

Column(list, k) == SubSeq(list, (k - 1) * Height + 1, Smaller(k * Height, Len(list)))

ColumnWidth(column) == 2 + Max({0} \cup {Len(column[i]) : i \in DOMAIN column})

\* The number of columns of list that fit beside each other.
Columns(list) ==
    LET all == 1..((Len(list) + Height - 1) \div Height)
        Total[k \in Nat] == IF k = 0 THEN 0 ELSE Total[k - 1] + ColumnWidth(Column(list, k))
    IN  Max({0} \cup {k \in all : Total[k] <= Width})

\* Faulty variant: the column that does not fit is lost.
ItemsOfPageAndNext(list) == (Columns(list) + 1) * Height

ItemsOfPage(list) == Columns(list) * Height

\* The pages of list, << >> if an entry is wider than a page: there is no
\* first column then, and Paginate panics.  An empty list has an empty column.
Paginate(list) ==
    LET From[i \in 1..(Len(list) + 1)] ==
            LET rest == SubSeq(list, i, Len(list))
                n    == Columns(rest) * Height
                next == i + ItemsOfPage(rest)
            IN  IF n = 0 THEN << >>
                ELSE IF n >= Len(rest) THEN <<rest>>
                ELSE IF next > Len(list) THEN <<SubSeq(rest, 1, n)>>
                ELSE IF From[next] = << >> THEN << >>
                ELSE <<SubSeq(rest, 1, n)>> \o From[next]
    IN  IF list # << >> THEN From[1] ELSE IF Width < 2 THEN << >> ELSE << << >> >>

-----------------------------------------------------------------------------
(* ExecMenu                                                                *)

Bound(x, lower, upper) == IF x < lower THEN lower ELSE IF x > upper THEN upper ELSE x

\* The menu is built and printed; the page asked for need not be there.
PrintMenu ==
    /\ menuAt = "build"
    /\ actions' = Sorted(objects)
    /\ options' = FilterActions(actions', filter)
    /\ pages' = Paginate(options')
    /\ pageIndex' = Bound(pageIndex, 0, pageCount - 1)
    /\ IF pages' = << >> \/ (pageIndex' >= Len(pages') /\ ~(options' = << >> /\ filter # << >>))
       THEN menuAt' = "panicked" /\ UNCHANGED <<pageCount, filter>>
       ELSE menuAt' = "input" /\ pageCount' = Len(pages') /\ filter' = << >>
    /\ UNCHANGED <<objects, chosen, searched, inputs, changes>>

Input(a) ==
    /\ menuAt = "input" /\ menuAt' = a
    /\ inputs < MaxInputs /\ inputs' = inputs + 1
    /\ UNCHANGED <<objects, pageCount, actions, options, pages, changes>>

\* ">", "<", ">>" and "<<"
Turn ==
    /\ Input("build")
    /\ pageIndex' \in {pageIndex + 1, pageIndex - 1, pageCount - 1, 0}
    /\ UNCHANGED <<filter, chosen, searched>>

Search ==
    /\ Input("build")
    /\ filter' \in Filters /\ searched' = (searched \/ filter' # << >>)
    /\ UNCHANGED <<pageIndex, chosen>>

\* The key is the number of any entry, shown or not.
Choose ==
    /\ Input("build") /\ \E i \in DOMAIN actions : chosen' = actions[i]
    /\ UNCHANGED <<pageIndex, filter, searched>>

Exit == Input("exited") /\ UNCHANGED <<pageIndex, filter, chosen, searched>>

\* Another session makes an object or deletes one.
Change ==
    /\ changes < MaxChanges /\ changes' = changes + 1
    /\ \/ \E n \in Names : objects' = Append(objects, n)
       \/ \E i \in DOMAIN objects : objects' = RemoveAt(objects, i)
    /\ UNCHANGED <<menuAt, pageIndex, pageCount, filter, actions, options, pages, chosen,
                   searched, inputs>>

MenusNext == PrintMenu \/ Turn \/ Search \/ Choose \/ Exit \/ Change

MenusSpec == MenusInit /\ [][MenusNext]_menusVars

-----------------------------------------------------------------------------
(* Names                                                                   *)

Beginning(pattern, list) == {i \in DOMAIN list : IsPrefix(pattern, list[i])}

\* The first exact match counts, unless two longer names come before it.
BestMatch(pattern, list) ==
    LET some  == Beginning(pattern, list)
        exact == {i \in some : list[i] = pattern}
        first == IF exact = {} THEN Len(list) + 1 ELSE Min(exact)
    IN  IF Cardinality({i \in some : i < first}) > 1 THEN -2
        ELSE IF exact # {} THEN first
        ELSE IF some = {} THEN -1
        ELSE Min(some)

-----------------------------------------------------------------------------
(* Properties                                                              *)

\* No entry is lost between two pages, or on two of them.
PagesHoldAll == menuAt = "input" => FlattenSeq(pages) = options

\* A menu takes its session down only if an entry is wider than a page, or if
\* the page it is on is gone: a search or another session changed the list that
\* the pages were counted of.
MenuPanicsHaveCause ==
    menuAt = "panicked" =>
        \/ Width < 2 \/ \E i \in DOMAIN options : Len(options[i]) + 2 > Width
        \/ pageIndex > 0 /\ (searched \/ changes > 0)

ZeroLed(name) ==
    \E p \in ToSet(PiecesOf(name)) : p[1] = 0 /\ Len(p) > 1

\* Whatever is searched for, the order of a menu is one of the names, not of the
\* database, if no number in them begins with a zero.
MenusAreSorted ==
    (\A n \in ToSet(objects) : ~ZeroLed(n)) =>
        \A f \in Filters :
            LET menu == FilterActions(Sorted(objects), f)
            IN  \A i, j \in DOMAIN menu : i < j => ~NaturalLessThan(menu[j], menu[i])

\* A name given in full, or by a beginning no other name has, is found.
NamesAreFound ==
    \A n \in Names, f \in Filters :
        /\ (BestMatch(n, objects) > 0) =>
              (objects[BestMatch(n, objects)] = n \/ Cardinality(Beginning(n, objects)) = 1)
        /\ Cardinality(Beginning(f, objects)) = 1 =>
              BestMatch(f, objects) \in Beginning(f, objects)

\* Menus show what there is.
MenusHold == PagesHoldAll /\ MenuPanicsHaveCause /\ MenusAreSorted /\ NamesAreFound
=============================================================================

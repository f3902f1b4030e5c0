-------------------------- MODULE ReorderPlanning --------------------------
(***************************************************************************)
(* How suggest_reorder and create_reorder_draft get from the stock and the *)
(* rules an owner stated to one order for each supplier.                   *)
(*                                                                         *)
(* Daily sales are counted in tenths of a unit.  A product's name, and the *)
(* words of a rule, are abstracted to the products they match; the store's *)
(* fuzzy search to the products tied for the best score.  In which order   *)
(* an order has its lines is left out.                                     *)
(***************************************************************************)
EXTENDS Integers, Sequences

CONSTANTS
    Suppliers,   \* those the shop has; a rule may name one that is gone
    Unassigned,  \* the supplier of a product without one
    Requests     \* what a call starts from, see IsRequest

Kinds == {"skip_item", "max_order_qty", "preferred_supplier"}
BufferDays == 7
SoonDays == 3

VARIABLES
    request,  \* stock, the wish (empty: everything that needs it), the rules
    stage,    \* "asked", "lined", "ruled", "planned" or "unclear"
    lines,    \* lines before or after the rules, by item: a place in the wish, or a product
    orders    \* supplier -> item -> line

planningVars == <<request, stage, lines, orders>>

RowOf == [onHand : Nat, min : Nat, reorder : Nat, pack : Nat, supplier : Suppliers \union {Unassigned}, avg : Nat, lead : Nat]

WishOf(products) == [tied : SUBSET products, qty : Nat]

RuleOf(products) ==
    [kind : {"skip_item"}, products : SUBSET products]
    \union [kind : {"max_order_qty"}, products : SUBSET products, max : Nat]
    \union [kind : {"preferred_supplier"}, products : SUBSET products, supplier : STRING]

(* What the store and the owner give: rows, a wish, and the rules in force.*)
IsRequest(r) ==
    LET products == DOMAIN r.stock IN
    /\ r.stock \in [products -> RowOf]
    /\ r.wish \in Seq(WishOf(products))
    /\ r.rules \in Seq(RuleOf(products))

Stock(p) == request.stock[p]
Products == DOMAIN request.stock

CeilDiv(a, b) == (a + b - 1) \div b

RoundUpToPack(qty, pack) == LET size == IF pack > 0 THEN pack ELSE 1 IN CeilDiv(qty, size) * size

IsLowStock(row) == row.min > 0 /\ row.onHand <= row.min

(* daysOfCover in tenths of a day, rounded; of a product that sells.       *)
CoverTenths(row) == (200 * row.onHand + row.avg) \div (2 * row.avg)

NeedsReorder(row) ==
    \/ IsLowStock(row)
    \/ row.avg > 0 /\ CoverTenths(row) <= 10 * (row.lead + SoonDays)

(* Ten times what is needed for the lead time and the week after it.       *)
NeededTenths(row) == (row.lead + BufferDays) * row.avg - 10 * row.onHand

(* Mutant of SuggestedQty: rounds to the nearest pack.                     *)
SuggestedNearest(row) ==
    LET needed == NeededTenths(row) size == IF row.pack > 0 THEN row.pack ELSE 1 IN
    IF needed > 0 THEN ((needed + 5 * size) \div (10 * size)) * size
    ELSE IF IsLowStock(row) /\ row.reorder > 0 THEN RoundUpToPack(row.reorder, row.pack) ELSE 0

SuggestedQty(row) ==
    LET needed == NeededTenths(row) size == IF row.pack > 0 THEN row.pack ELSE 1 IN
    IF needed > 0 THEN CeilDiv(needed, 10 * size) * size
    ELSE IF IsLowStock(row) /\ row.reorder > 0 THEN RoundUpToPack(row.reorder, row.pack) ELSE 0

(* resolveProduct for a reorder: a tie goes to the one that needs it.      *)
Resolved(tied) ==
    LET needing == {p \in tied : NeedsReorder(Stock(p))} IN
    IF \E p \in tied : tied = {p} THEN tied ELSE IF \E p \in needing : needing = {p} THEN needing ELSE {}

Line(p, qty, explicit) == [product |-> p, qty |-> qty, explicit |-> explicit, supplier |-> Stock(p).supplier]

Either(a, b) == IF a # 0 THEN a ELSE b

(* A named product without a quantity is ordered even when none is needed. *)
WishLine(item) ==
    LET p == CHOOSE x \in Resolved(item.tied) : TRUE row == Stock(p) IN
    IF item.qty # 0 THEN Line(p, item.qty, TRUE)
    ELSE Line(p, Either(SuggestedQty(row), RoundUpToPack(Either(row.reorder, row.pack), row.pack)), FALSE)

Needed == {p \in Products : NeedsReorder(Stock(p))}

(* The lines of the wish, or those of everything that needs ordering.      *)
MakeLines ==
    /\ stage = "asked"
    /\ IF \E i \in DOMAIN request.wish : Resolved(request.wish[i].tied) = {}
       THEN stage' = "unclear" /\ UNCHANGED lines
       ELSE /\ stage' = "lined"
            /\ lines' = IF request.wish # <<>>
                        THEN [i \in DOMAIN request.wish |-> WishLine(request.wish[i])]
                        ELSE [p \in Needed |-> Line(p, SuggestedQty(Stock(p)), FALSE)]
    /\ UNCHANGED <<request, orders>>

(* The rules for a product, by their places: the first is the oldest.      *)
Matching(p, kind) == {i \in DOMAIN request.rules : request.rules[i].kind = kind /\ p \in request.rules[i].products}

First(places) == request.rules[CHOOSE i \in places : \A j \in places : i <= j]

Skipped(line) == request.wish = <<>> /\ Matching(line.product, "skip_item") # {}

(* The first rule that prefers a supplier decides, if that one still is.   *)
PreferredSupplier(line) ==
    LET rules == Matching(line.product, "preferred_supplier") IN
    IF rules # {} /\ First(rules).supplier \in Suppliers THEN First(rules).supplier ELSE line.supplier

(* Mutant of CappedQty: the cap stated first, not the smallest.            *)
CappedFirst(line) ==
    LET caps == Matching(line.product, "max_order_qty") IN
    IF caps # {} /\ ~line.explicit /\ line.qty > First(caps).max THEN First(caps).max ELSE line.qty

CappedQty(line) ==
    LET most == {line.qty} \union {request.rules[i].max : i \in Matching(line.product, "max_order_qty")} IN
    IF line.explicit THEN line.qty ELSE CHOOSE q \in most : \A other \in most : q <= other

(* applyPreferences                                                        *)
ApplyPreferences ==
    /\ stage = "lined"
    /\ stage' = "ruled"
    /\ lines' = [i \in {j \in DOMAIN lines : ~Skipped(lines[j])} |->
                    [lines[i] EXCEPT !.supplier = PreferredSupplier(lines[i]), !.qty = CappedQty(lines[i])]]
    /\ UNCHANGED <<request, orders>>

Wanted == {i \in DOMAIN lines : lines[i].qty > 0}

(* planBySupplier                                                          *)
PlanBySupplier ==
    /\ stage = "ruled"
    /\ stage' = "planned"
    /\ orders' = [s \in {lines[i].supplier : i \in Wanted} |-> [i \in {j \in Wanted : lines[j].supplier = s} |-> lines[i]]]
    /\ UNCHANGED <<request, lines>>

PlanningInit ==
    /\ request \in Requests
    /\ stage = "asked" /\ lines = <<>> /\ orders = [s \in {} |-> <<>>]

PlanningNext == MakeLines \/ ApplyPreferences \/ PlanBySupplier

(* What must hold.                                                         *)

Ordered == UNION {{orders[s][i] : i \in DOMAIN orders[s]} : s \in DOMAIN orders}
RulesFor(p, kind) == {request.rules[i] : i \in Matching(p, kind)}

(* The smallest number of whole packs that lasts for the lead time and the *)
(* week after it (the formula suggest_reorder's description promises).     *)
LastsPackwise(row, q) ==
    LET size == IF row.pack > 0 THEN row.pack ELSE 1 IN
    /\ \E packs \in 0..q : q = packs * size
    /\ 10 * (row.onHand + q) >= (row.lead + BufferDays) * row.avg
    /\ 10 * (row.onHand + q - size) < (row.lead + BufferDays) * row.avg

(* Whatever is about to run out is ordered, once, in the smallest whole    *)
(* packs that last, unless a rule of the owner says otherwise; a plan      *)
(* orders nothing twice and nothing that is not needed.                    *)
SuggestionsLast ==
    stage = "planned" /\ request.wish = <<>> =>
        /\ \A p \in Products :
              NeedsReorder(Stock(p)) /\ NeededTenths(Stock(p)) > 0
              /\ RulesFor(p, "skip_item") = {} /\ RulesFor(p, "max_order_qty") = {}
              => \E l \in Ordered : l.product = p /\ LastsPackwise(Stock(p), l.qty)
        /\ \A l \in Ordered : NeedsReorder(Stock(l.product))
        /\ \A s, t \in DOMAIN orders : \A i \in DOMAIN orders[s], j \in DOMAIN orders[t] :
              orders[s][i].product = orders[t][j].product => s = t /\ i = j

(* The owner's rules are kept through all of it: no skipped item and no    *)
(* supplier but the preferred one, no quantity over any of its caps; and a *)
(* quantity or product named in the same breath wins over caps and skips.  *)
RulesKept ==
    stage = "planned" =>
        /\ \A l \in Ordered :
              /\ RulesFor(l.product, "skip_item") # {} => request.wish # <<>>
              /\ ~l.explicit => \A r \in RulesFor(l.product, "max_order_qty") : l.qty <= r.max
              /\ \A r \in RulesFor(l.product, "preferred_supplier") :
                    RulesFor(l.product, "preferred_supplier") = {r} /\ r.supplier \in Suppliers => l.supplier = r.supplier
        /\ \A i \in DOMAIN request.wish :
              request.wish[i].qty # 0 => \E l \in Ordered : l.product \in request.wish[i].tied /\ l.qty = request.wish[i].qty
=============================================================================

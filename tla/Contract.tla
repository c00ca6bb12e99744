------------------------------ MODULE Contract ------------------------------
(***************************************************************************)
(* How an agent and a renderer agree on a catalog (toolkit/negotiate.rs of   *)
(* crates/ag-ui-a2ui), and the schema documents the model is then prompted   *)
(* with, cut down to what it may use (toolkit/schema.rs).                    *)
(*                                                                         *)
(* A catalog document is its id, None if it has none, its content, and        *)
(* whether it forbids further properties.  In a bundle a definition is the    *)
(* set of references anywhere in it; their wording is what pruning reads.             *)
(***************************************************************************)
EXTENDS Naturals, Sequences, SequencesExt, FiniteSets

CONSTANT None

----------------------------------------------------------------------------
(* Negotiation.                                                             *)

Document(id, content, strict) == [id |-> id, content |-> content, strict |-> strict]
Capabilities(ids, inline) == [ids |-> ids, inline |-> inline]

Conflicting(documents) == \E d, e \in Range(documents) : d.id = e.id /\ d # e
Nameless(documents) == \E d \in Range(documents) : d.id = None
\* select_catalog_schema; None is its error.
SelectSchema(supported, capabilities, acceptsInline) ==
    LET documents == supported \o capabilities.inline
        common == SelectSeq(capabilities.ids, LAMBDA id : \E d \in Range(documents) : d.id = id)
    IN  IF \/ capabilities.inline # <<>> /\ ~acceptsInline
           \/ Nameless(documents) \/ Conflicting(documents) \/ common = <<>>
        THEN None ELSE CHOOSE d \in Range(documents) : d.id = Head(common)

\* CatalogRegistry.
RegistryEntry(name, schema) == [name |-> name, schema |-> schema]
CatalogId(entry) == IF entry.schema.id = None THEN entry.name ELSE entry.schema.id
Insert(entries, name, schema) == Append(entries, RegistryEntry(name, schema))
Get(entries, id) == SelectSeq(entries, LAMBDA entry : id \in {CatalogId(entry), entry.name})
\* A refused alias leaves the registry as it was.
\* Fault: no look at what the id already stands for.
InsertAliasBlindly(entries, alias, existing) ==
    IF Get(entries, existing) = <<>> THEN entries
    ELSE Insert(entries, alias, [Head(Get(entries, existing)).schema EXCEPT !.id = alias])
InsertAlias(entries, alias, existing) ==
    LET schema == [Head(Get(entries, existing)).schema EXCEPT !.id = alias]
    IN  IF \/ Get(entries, existing) = <<>>
           \/ \E entry \in Range(entries) : CatalogId(entry) = alias /\ entry.schema # schema
        THEN entries ELSE Insert(entries, alias, schema)
\* remove_strict_validation, of every document.
Relaxed(document) == [document EXCEPT !.strict = FALSE]
RelaxStrictValidation(entries) == [n \in DOMAIN entries |-> [entries[n] EXCEPT !.schema = Relaxed(@)]]
Schemas(entries) == [n \in DOMAIN entries |-> entries[n].schema]
Select(entries, capabilities, acceptsInline) == SelectSchema(Schemas(entries), capabilities, acceptsInline)

----------------------------------------------------------------------------
(* Bundles.                                                                 *)

\* A reference to a definition or component: in the document it stands in, or in
\* another, by its file name ("common_types.json") or by its `$id`.
Reference(to, name, absolute) == [to |-> to, name |-> name, absolute |-> absolute]
Here(name) == Reference("here", name, FALSE)
\* A branch of a union: it is a reference, or it is something that holds some.
Branch(name) == [ref |-> name, refs |-> {Here(name)}]

\* The envelopes are a union of messages or a flat map of them, union None; a union
\* may be there and offer nothing.  A catalog has components, their union
\* `anyComponent`, and a rest (functions and theme) that is never cut down.
Envelope(union, properties, defs) == [union |-> union, properties |-> properties, defs |-> defs]
CatalogDocument(components, union, rest) == [components |-> components, union |-> union, rest |-> rest]
Bundle(s2c, common, catalog) == [s2c |-> s2c, common |-> common, catalog |-> catalog]

RefsIn(definitions) == UNION Range(definitions)
BranchRefs(union) == IF union = None THEN {} ELSE UNION {branch.refs : branch \in union}
CatalogRefs(catalog) == RefsIn(catalog.components) \cup BranchRefs(catalog.union) \cup catalog.rest
EnvelopeRefs(s2c) == BranchRefs(s2c.union) \cup RefsIn(s2c.properties)

Only(definitions, names) == [name \in DOMAIN definitions \cap names |-> definitions[name]]
Retained(union, allowed) ==
    IF union = None THEN None ELSE {branch \in union : branch.ref = None \/ branch.ref \in allowed}

\* retain_reachable_defs.
NamesIn(references, document) ==
    {r.name : r \in {r \in references : ~r.absolute /\ r.to \in {"here", document}}}
ReachableDefs(defs, roots, document) ==
    LET after[n \in 0 .. Cardinality(DOMAIN defs)] ==
            NamesIn(IF n = 0 THEN roots ELSE roots \cup RefsIn(Only(defs, after[n - 1])), document)
    IN  Only(defs, after[Cardinality(DOMAIN defs)])

PruneComponents(catalog, allowed) ==
    CatalogDocument(Only(catalog.components, allowed), Retained(catalog.union, allowed), catalog.rest)
PruneMessages(s2c, allowed) ==
    LET union == Retained(s2c.union, allowed)
    IN  IF s2c.union = None THEN [s2c EXCEPT !.properties = Only(@, allowed)]
        ELSE Envelope(union, s2c.properties,
                 ReachableDefs(s2c.defs, BranchRefs(union) \cup RefsIn(s2c.properties), "here"))
PruneCommonTypes(common, catalog, s2c) ==
    ReachableDefs(common, CatalogRefs(catalog) \cup EnvelopeRefs(s2c) \cup RefsIn(s2c.defs), "common")
\* An empty list allows everything.
Prune(bundle, components, messages) ==
    LET catalog == IF components = {} THEN bundle.catalog ELSE PruneComponents(bundle.catalog, components)
        s2c == IF messages = {} THEN bundle.s2c ELSE PruneMessages(bundle.s2c, messages)
    IN  Bundle(s2c, PruneCommonTypes(bundle.common, catalog, s2c), catalog)

----------------------------------------------------------------------------
(* What is promised.                                                        *)

\* An alias is another name for one document and for nothing else: whoever agreed
\* on a catalog before agrees on the same, or on the document aliased.
AliasIsAName(entries, alias, existing, capabilities) ==
    LET before == Select(entries, capabilities, FALSE)
        after == Select(InsertAlias(entries, alias, existing), capabilities, FALSE)
    IN  before # None =>
            after = before \/ after = [Head(Get(entries, existing)).schema EXCEPT !.id = alias]

\* Relaxing changes what is agreed on in nothing but its strictness.
RelaxedAlike(entries, capabilities) ==
    LET before == Select(entries, capabilities, FALSE)
    IN  before # None => Select(RelaxStrictValidation(entries), capabilities, FALSE) = Relaxed(before)

\* What the references in `place` say of the definitions of `document`.
Meaning(references, place, document) ==
    {r.name : r \in {r \in references : (IF r.to = "here" THEN place ELSE r.to) = document}}
Pointed(bundle, names) ==
    Meaning(CatalogRefs(bundle.catalog), "catalog", "common")
    \cup Meaning(EnvelopeRefs(bundle.s2c) \cup RefsIn(bundle.s2c.defs), "s2c", "common")
    \cup Meaning(RefsIn(Only(bundle.common, names)), "common", "common")

\* "A shared type survives exactly as long as something still points at it"
\* (schema.rs:19-22): what is left of the common types is the least set that holds
\* all that what is kept points at.
SharedSurvive(bundle, components, messages) ==
    LET pruned == Prune(bundle, components, messages)
        left == DOMAIN pruned.common
        Holds(names) == Pointed([pruned EXCEPT !.common = bundle.common], names) \cap DOMAIN bundle.common \subseteq names
    IN  Holds(left) /\ \A fewer \in SUBSET left \ {left} : ~Holds(fewer)

\* The union of components, and that of messages, offers what is defined and nothing else.
OffersWhatItDefines(bundle, components, messages) ==
    LET pruned == Prune(bundle, components, messages)
    IN  /\ pruned.catalog.union # None =>
              Meaning(BranchRefs(pruned.catalog.union), "catalog", "catalog") = DOMAIN pruned.catalog.components
        /\ Meaning(EnvelopeRefs(pruned.s2c) \cup RefsIn(pruned.s2c.defs), "s2c", "s2c") \subseteq DOMAIN pruned.s2c.defs
=============================================================================

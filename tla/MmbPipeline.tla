----------------------------- MODULE MmbPipeline -----------------------------
(***************************************************************************)
(* A proof file's way from mm0-rs to mm0-c: the verifier of mm0-c          *)
(* (Verifier), which may be fed anything, is fed here with the commands    *)
(* that mm0-rs has written (MmbElab).                                      *)
(*                                                                         *)
(* The declarations of a theory come first, then one of the candidates.    *)
(* The file's tables and the .mm0 file grow with each declaration: mm0-c   *)
(* reads them in that order and never looks ahead.                         *)
(***************************************************************************)
EXTENDS Verifier

CONSTANTS
  Theory,      \* a sequence of declarations, as MmbElab elaborates them
  Candidates   \* the last declaration is one of these

VARIABLES
  ndecls,      \* how many declarations were made
  decl,        \* the last one
  sent,        \* mm0-c has read its statement's head
  code         \* the rest of its command stream

-----------------------------------------------------------------------------
(* The two programs *)

Says(kind, entry) == [kind |-> kind, entry |-> entry]

(* mm0-rs writes the declaration t. *)
Declare(t) ==
  /\ pc = "stmt" /\ sent
  /\ decl' = t
  /\ code' = t.code
  /\ spec' = Append(spec, Says(t.kind, t.entry))
  /\ file' = CASE t.kind = "sort" -> [file EXCEPT !.sorts = Append(@, t.entry)]
               [] t.kind \in {"term", "def"} -> [file EXCEPT !.terms = Append(@, t.entry)]
               [] t.kind \in {"axiom", "thm"} -> [file EXCEPT !.thms = Append(@, t.entry)]
               [] t.kind = "none" -> file
  /\ ndecls' = ndecls + 1
  /\ sent' = FALSE
  /\ UNCHANGED <<nsorts, nterms, nthms, pc, stmt, machine, anysorry, unifier>>

DeclareNext == \E i \in DOMAIN Theory : i = ndecls + 1 /\ \E t \in {Theory[i]} : Declare(t)
DeclareCandidate == ndecls = Len(Theory) /\ \E t \in Candidates : Declare(t)

(* The head of the declaration's statement. *)
Head0 ==
  /\ ~sent
  /\ sent' = TRUE
  /\ CASE decl.kind = "sort" -> StmtSort
       [] decl.kind = "term" -> StmtTerm(FALSE)
       [] decl.kind = "def" -> StmtDef(FALSE)
       [] decl.kind \in {"axiom", "thm"} -> StmtThm(decl.kind, FALSE)
       [] decl.kind = "none" -> FALSE
  /\ UNCHANGED <<ndecls, decl, code>>

Run(c) ==
  CASE c.op = "Ref" -> ProofRef(c.data)
    [] c.op = "Dummy" -> ProofDummy(c.data)
    [] c.op = "Term" -> ProofTerm(c.data, c.save)
    [] c.op = "Thm" -> ProofThm(c.data, c.save)
    [] c.op = "Hyp" -> ProofHyp
    [] c.op = "Conv" -> ProofConv
    [] c.op = "Refl" -> ProofRefl
    [] c.op = "Sym" -> ProofSymm
    [] c.op = "Cong" -> ProofCong
    [] c.op = "Unfold" -> ProofUnfold
    [] c.op = "ConvCut" -> ProofConvCut
    [] c.op = "ConvSave" -> ProofConvSave
    [] c.op = "Save" -> ProofSave
    [] c.op = "Sorry" -> ProofSorry

Command ==
  /\ code # <<>>
  /\ code' = Tail(code)
  /\ Run(Head(code))
  /\ UNCHANGED <<ndecls, decl, sent>>

EndOfStream ==
  /\ code = <<>>
  /\ EndDef \/ EndThm
  /\ UNCHANGED <<ndecls, decl, sent, code>>

Unify ==
  /\ UnifyStep
  /\ UNCHANGED <<ndecls, decl, sent, code>>

(* A command, or a check that fails: the exit. *)
Advance == Head0 \/ Command \/ EndOfStream \/ Unify

Refuse ==
  /\ pc # "stmt" \/ ~sent
  /\ ~ENABLED Advance
  /\ Reject
  /\ UNCHANGED <<ndecls, decl, sent, code>>

EndOfFile ==
  /\ ndecls > Len(Theory) /\ sent
  /\ StmtEnd
  /\ UNCHANGED <<ndecls, decl, sent, code>>

MInit ==
  /\ Init
  /\ ndecls = 0
  /\ decl = [kind |-> "none"]
  /\ sent = TRUE
  /\ code = <<>>

MNext == DeclareNext \/ DeclareCandidate \/ Advance \/ Refuse \/ EndOfFile

mvars == <<vars, ndecls, decl, sent, code>>

MSpec == MInit /\ [][MNext]_mvars

-----------------------------------------------------------------------------
(* Properties *)

RECURSIVE HasNode(_, _)
HasNode(P(_), t) == P(t) \/ \E i \in DOMAIN t[3] : HasNode(P, t[3][i])

Chained(t) == t[1] = "Conv" /\ t[3][3][1] = "Conv"
ReflOfTerm(t) == t[1] = "Refl" /\ t[3][1][1] = "Term"
Binder(t) == t[1] = "Term" /\ \E i \in DOMAIN file.terms[t[2]].args : file.terms[t[2]].args[i].bound

ProofHas(P(_)) == \E i \in DOMAIN decl.trees : HasNode(P, decl.trees[i])

(* build moves a node that is used once and refers to one that is used     *)
(* more often: no node is moved twice, which is a panic ("taking a value   *)
(* twice"), and the checker finds the dependencies of every node it asks   *)
(* for, whatever is proved wrongly and however the elaborator's values     *)
(* share their parts.                                                      *)
ElaborationNeverPanics == ndecls > 0 => decl.verdict # "panic"

(* What verify.rs lets into the environment, mm0-c accepts once exported:  *)
(* every heap index the exporter counted is the one mm0-c gave, every      *)
(* obligation is met in the order it was pushed.  A theorem whose proof    *)
(* did not elaborate is no reason to refuse the file either.               *)
ExportedIsAccepted == pc = "rejected" => decl.verdict = "error"

(* What mm0-c accepts, mm0-rs can import: the importer reads it and        *)
(* verify.rs agrees.  Three kinds of proof are excepted: a conversion of a *)
(* conversion, which verify.rs refuses when the middle expression is       *)
(* shared; a reflexivity of an application, which can make the importer    *)
(* panic; and a proof about a binder that verify.rs had refused before,    *)
(* as it counts the bound arguments that mm0-c forgets.                    *)
AcceptedIsImported ==
  pc = "accepted" => \/ decl.back.verdict = "ok"
                     \/ decl.back.verdict = "error" /\ ProofHas(Chained)
                     \/ decl.back.verdict = "error" /\ decl.verdict = "error" /\ ProofHas(Binder)
                     \/ decl.back.verdict = "panic" /\ ProofHas(ReflOfTerm)

(* What mm0-rs has verified, written and imported again is what it was:    *)
(* the same statement and the same proof, up to the sharing of their parts *)
(* and the names of the dummies.                                           *)
RoundTrip ==
  (pc = "accepted" /\ decl.verdict = "ok" /\ decl.back.verdict = "ok") => decl.back.same
=============================================================================

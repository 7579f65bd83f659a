----------------------------- MODULE MCGenerator ------------------------------
(***************************************************************************)
(* The shipped grammars and some small ones for TLC.                       *)
(***************************************************************************)
EXTENDS Generator, ShippedGrammars, TLC

(* test.json, the grammar of the unit tests.                               *)
Test == Rules("A", <<N(2, <<"B">>)>>) \o Rules("B", <<N(5, <<"C">>)>>) \o
  Rules("C", <<T(1), T(3)>>)

(* Recursion on both sides, through another key, and of a list that may be *)
(* empty.                                                                  *)
Sums == Rules("START", <<N(0, <<"SUM">>)>>) \o
  Rules("SUM", <<N(1, <<"SUM", "SUM">>), N(2, <<"LIST">>), T(1), T(3)>>) \o
  Rules("LIST", <<T(0), N(1, <<"SUM", "LIST">>)>>)

(* A key whose cost is found late and makes the keys before it cheaper in  *)
(* the passes that follow; rules without any text.                         *)
Backwards == Rules("START", <<T(6), N(0, <<"LEFT", "RIGHT">>)>>) \o
  Rules("LEFT", <<T(5), N(1, <<"RIGHT">>)>>) \o
  Rules("RIGHT", <<T(4), N(1, <<"LAST">>), N(0, <<"LAST", "LAST">>)>>) \o
  Rules("LAST", <<N(2, <<"LEFT", "LEFT">>), N(0, <<"LEFT">>), T(0), T(2)>>)

(* A key without a finite text, used by a rule of another one.             *)
Endless == Rules("START", <<T(1), N(0, <<"LOOP">>)>>) \o
  Rules("LOOP", <<N(1, <<"LOOP", "LOOP">>)>>)

MCGrammars == {"lua", "javascript_new", "ruby_custom", "php_custom",
               "test", "sums", "backwards", "endless"}
MCCalls == [lua |-> Lua, javascript_new |-> JavaScript, ruby_custom |-> Ruby,
            php_custom |-> Php, url_schema |-> UrlSchema,
            test |-> Test, sums |-> Sums, backwards |-> Backwards,
            endless |-> Endless]
(* In lua and in javascript_new an expression can begin with an expression. *)
MCLeftRecursive ==
  [lua |-> {"EXPR", "FUNCTIONCALL"}, javascript_new |-> {"EXPR"},
   ruby_custom |-> {}, php_custom |-> {}, url_schema |-> {"Domainlabel"},
   test |-> {}, sums |-> {"SUM"}, backwards |-> {}, endless |-> {"LOOP"}]
MCGenerated == {"test", "sums"}
MCInitLens == 0..5

UrlOnly == {"url_schema"}
=============================================================================

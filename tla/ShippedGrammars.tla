--------------------------- MODULE ShippedGrammars ---------------------------
(***************************************************************************)
(* The grammars of src/grammars/nautilus_py_grammars, as the calls of      *)
(* ctx.rule in each file: every key, every rule's non-terminals and the    *)
(* length of its terminals.  Of rules that differ in nothing but terminal  *)
(* text the shortest and the longest are kept, of equal ones the first.    *)
(***************************************************************************)
EXTENDS Naturals, Sequences

(* A rule without and one with non-terminals.                              *)
T(text) == [text |-> text, keys |-> <<>>]
N(text, keys) == [text |-> text, keys |-> keys]

(* Consecutive calls of ctx.rule for one key.                              *)
Rules(key, rules) == [i \in DOMAIN rules |-> [key |-> key, rule |-> rules[i]]]

-----------------------------------------------------------------------------
(* lua.py *)

LuaStatements ==
  Rules("START", <<N(0, <<"PROGRAM">>)>>) \o
  Rules("PROGRAM", <<N(1, <<"STATEMENT", "PROGRAM">>), T(0)>>) \o
  Rules("STATEMENT", <<T(0), T(5), N(3, <<"VAR", "EXPR">>),
    N(9, <<"VARLIST", "EXPRLIST">>), N(0, <<"FUNCTION">>),
    N(0, <<"COROUTINE">>), N(0, <<"CONDITIONAL">>), N(0, <<"LOOP">>),
    N(7, <<"EXPRLIST">>), N(5, <<"LABELNAME">>), N(4, <<"LABELNAME">>)>>) \o
  Rules("LABELNAME", <<T(6)>>) \o
  Rules("FUNCTION", <<N(8, <<"FUNCDEF", "FUNCTION_ARGS", "PROGRAM">>)>>) \o
  Rules("FUNCDEF", <<N(10, <<"VAR", "IDENTIFIER">>),
    N(9, <<"IDENTIFIER">>)>>) \o
  Rules("LAMBDA", <<N(16, <<"FUNCTION_ARGS", "PROGRAM">>)>>) \o
  Rules("FUNCTION_ARGS", <<T(0), N(0, <<"FUNCTION_ARGLIST">>)>>) \o
  Rules("FUNCTION_ARGLIST", <<N(2, <<"VAR", "FUNCTION_ARGLIST">>),
    N(0, <<"VAR">>), T(3)>>) \o
  Rules("COROUTINE", <<N(21, <<"VAR", "LAMBDA">>),
    N(19, <<"VAR", "LAMBDA">>), N(20, <<"VAR", "ARGS">>),
    N(17, <<"ARGS">>)>>) \o
  Rules("FUNCTIONCALL", <<N(1, <<"IDENTIFIER", "ARGS">>),
    N(2, <<"EXPR", "IDENTIFIER", "ARGS">>)>>) \o
  Rules("ARGS", <<N(2, <<"EXPRLIST">>), N(0, <<"TABLECONSTRUCTOR">>),
    N(0, <<"LITERALSTRING">>)>>) \o
  Rules("CONDITIONAL", <<N(13, <<"EXPR", "PROGRAM">>),
    N(19, <<"EXPR", "PROGRAM", "PROGRAM">>)>>) \o
  Rules("LOOP", <<N(16, <<"EXPR", "PROGRAM">>),
    N(17, <<"VAR", "EXPR", "EXPR", "EXPR", "PROGRAM">>),
    N(16, <<"PROGRAM", "EXPR">>)>>) \o
  Rules("EXPRLIST", <<N(2, <<"EXPR", "EXPRLIST">>), N(0, <<"EXPR">>)>>)

LuaExpressions ==
  Rules("EXPR", <<T(7), N(2, <<"NUMERAL">>), N(0, <<"LITERALSTRING">>),
    N(0, <<"TABLECONSTRUCTOR">>), N(4, <<"VAR", "EXPR">>),
    N(2, <<"EXPR", "BINOP", "EXPR">>), N(2, <<"UNOP", "EXPR">>),
    N(0, <<"LAMBDA">>), N(0, <<"VAR">>), N(0, <<"FUNCTIONCALL">>),
    N(2, <<"EXPR">>), T(3)>>) \o
  Rules("BINOP", <<T(1), T(5)>>) \o
  Rules("UNOP", <<T(1), T(5)>>) \o
  Rules("TABLECONSTRUCTOR", <<N(2, <<"FIELDLIST">>)>>) \o
  Rules("METATABLE", <<N(19, <<"VAR", "VAR", "TABLECONSTRUCTOR">>)>>) \o
  Rules("FIELDLIST", <<N(1, <<"FIELD", "FIELDLIST">>), N(0, <<"FIELD">>)>>) \o
  Rules("FIELD", <<N(3, <<"EXPR", "EXPR">>),
    N(1, <<"IDENTIFIER", "EXPR">>), N(0, <<"EXPR">>)>>) \o
  Rules("VARLIST", <<N(2, <<"VAR", "VARLIST">>), N(0, <<"VAR">>)>>) \o
  Rules("VAR", <<T(1), T(9)>>) \o
  Rules("LITERALSTRING", <<N(2, <<"STRING">>), N(4, <<"STRING">>)>>) \o
  Rules("STRING", <<T(0), N(0, <<"STRCHR", "STRING">>)>>) \o
  Rules("STRCHR", <<T(1), N(0, <<"ESCAPESEQUENCE">>)>>) \o
  Rules("ESCAPESEQUENCE", <<T(2), T(1), N(2, <<"HEXADECIMAL">>),
    N(4, <<"HEXADECIMAL">>)>>) \o
  Rules("NUMERAL", <<N(0, <<"DECIMAL">>), N(2, <<"HEXADECIMAL">>)>>) \o
  Rules("DECIMAL", <<N(0, <<"DECIMALDIGIT", "DECIMALDIGITS">>),
    N(1, <<"DECIMALDIGIT", "DECIMALDIGITS", "DECIMALDIGIT", "DECIMALDIGITS">>),
    N(2, <<"DECIMALDIGIT", "DECIMALDIGITS", "DECIMALDIGIT", "DECIMALDIGITS">>),
    N(2, <<"DECIMALDIGIT", "DECIMALDIGITS", "DECIMALDIGIT", "DECIMALDIGITS", "DECIMALDIGIT", "DECIMALDIGITS">>),
    N(3, <<"DECIMALDIGIT", "DECIMALDIGITS", "DECIMALDIGIT", "DECIMALDIGITS", "DECIMALDIGIT", "DECIMALDIGITS">>)>>) \o
  Rules("HEXADECIMAL", <<N(0, <<"HEXDIGIT", "HEXDIGITS">>),
    N(1, <<"HEXDIGIT", "HEXDIGITS", "HEXDIGIT", "HEXDIGITS">>),
    N(2, <<"HEXDIGIT", "HEXDIGITS", "HEXDIGIT", "HEXDIGITS">>),
    N(2, <<"HEXDIGIT", "HEXDIGITS", "HEXDIGIT", "HEXDIGITS", "HEXDIGIT", "HEXDIGITS">>),
    N(3, <<"HEXDIGIT", "HEXDIGITS", "HEXDIGIT", "HEXDIGITS", "HEXDIGIT", "HEXDIGITS">>)>>) \o
  Rules("DECIMALDIGITS", <<N(0, <<"DECIMALDIGIT", "DECIMALDIGITS">>),
    T(0)>>) \o
  Rules("HEXDIGITS", <<N(0, <<"HEXDIGIT", "HEXDIGITS">>), T(0)>>) \o
  Rules("DECIMALDIGIT", <<T(1)>>) \o
  Rules("HEXDIGIT", <<T(1), N(0, <<"DECIMALDIGIT">>)>>)

LuaNames ==
  Rules("IDENTIFIER", <<T(1), T(14)>>)

LuaMoreNames ==
  Rules("IDENTIFIER", <<T(12), T(2)>>)

Lua ==
  LuaStatements \o LuaExpressions \o LuaNames \o LuaMoreNames

-----------------------------------------------------------------------------
(* javascript_new.py *)

JsObjects ==
  Rules("START", <<N(48, <<"PROGRAM">>)>>) \o
  Rules("PROGRAM", <<N(1, <<"STATEMENT", "PROGRAM">>), T(0)>>) \o
  Rules("OBJECT", <<N(0, <<"IDENTIFIER">>), N(2, <<"OBJMEMBER">>), T(2)>>) \o
  Rules("OBJMEMBER", <<N(4, <<"VAR", "LITERAL", "OBJMEMBER">>),
    N(2, <<"VAR", "LITERAL">>)>>) \o
  Rules("VAR", <<T(1)>>)

JsGlobalMethods ==
  Rules("METHOD_NAME", <<N(0, <<"IDENTIFIER">>), T(25), T(2)>>)

JsDateMethods ==
  Rules("METHOD_NAME", <<T(18), T(2)>>)

JsOtherMethods ==
  Rules("METHOD_NAME", <<T(27), T(0)>>) \o
  Rules("METHODPARAMETERLIST", <<T(0), N(2, <<"METHODPARAMETERS">>)>>) \o
  Rules("METHODPARAMETERS", <<N(0, <<"EXPR">>), N(1, <<"VAR", "EXPR">>),
    N(1, <<"EXPR", "METHODPARAMETERS">>),
    N(2, <<"VAR", "EXPR", "METHODPARAMETERS">>)>>) \o
  Rules("METHODCALL", <<N(0, <<"OBJECT", "PROPERTY", "METHODCALL1">>),
    N(0, <<"METHOD_NAME", "ARGS", "METHODCALL1">>),
    N(6, <<"SIMD_TYPE", "SIMD_FUNCTION", "ARGS", "METHODCALL1">>)>>) \o
  Rules("METHODCALL1", <<N(1, <<"METHOD_NAME", "ARGS", "METHODCALL1">>),
    N(1, <<"SIMD_FUNCTION", "ARGS", "METHODCALL1">>), T(0)>>)

JsProperties ==
  Rules("PROPERTY", <<N(7, <<"PROPERTY">>), N(10, <<"PROPERTY">>),
    N(12, <<"PROPERTY">>), N(17, <<"PROPERTY">>), N(11, <<"PROPERTY">>),
    N(6, <<"PROPERTY">>), N(5, <<"PROPERTY">>), N(9, <<"PROPERTY">>),
    N(14, <<"PROPERTY">>), N(8, <<"PROPERTY">>), N(19, <<"PROPERTY">>),
    N(13, <<"PROPERTY">>), N(4, <<"PROPERTY">>), N(18, <<"PROPERTY">>),
    N(2, <<"PROPERTY">>), N(3, <<"PROPERTY">>),
    N(2, <<"DECIMALNUMBER", "PROPERTY">>), N(2, <<"STRING", "PROPERTY">>),
    T(0)>>)

JsStatements ==
  Rules("ARGS", <<T(2), N(2, <<"ARGLIST">>)>>) \o
  Rules("ARGLIST", <<N(1, <<"EXPR", "ARGLIST">>), N(0, <<"EXPR">>)>>) \o
  Rules("IDENTIFIERLIST", <<N(1, <<"IDENTIFIER", "IDENTIFIERLIST">>),
    N(3, <<"IDENTIFIERLIST", "IDENTIFIERLIST">>), N(0, <<"IDENTIFIER">>)>>) \o
  Rules("STATEMENT", <<N(1, <<"EXPR">>), N(1, <<"VAR">>),
    N(0, <<"DECLARATION">>), N(8, <<"EXPR">>), N(6, <<"EXPR">>),
    N(0, <<"CLASSDEF">>), N(0, <<"FUNCTIONDEF">>), N(6, <<"FUNCTIONDEF">>),
    N(7, <<"FUNCTIONDEF">>), N(7, <<"DECLARATION">>),
    N(17, <<"IMPORT_NAME", "METHOD_NAME", "STRING">>)>>) \o
  Rules("DECLARATION", <<N(5, <<"DECLARATION_TYPE", "VAR", "EXPR">>),
    N(5, <<"DECLARATION_TYPE", "VAR", "PROPERTY", "EXPR">>),
    N(7, <<"DECLARATION_TYPE", "VAR", "DECIMALNUMBER", "EXPR">>),
    N(9, <<"DECLARATION_TYPE", "ARGS", "EXPR">>)>>) \o
  Rules("DECLARATION_TYPE", <<T(0), T(5)>>) \o
  Rules("IMPORT_NAME", <<T(1), N(0, <<"METHOD_NAME">>)>>) \o
  Rules("CLASSDEF", <<N(11, <<"IDENTIFIER", "CLASS_CONTENT">>),
    N(20, <<"IDENTIFIER", "IDENTIFIER", "CLASS_CONTENT">>)>>) \o
  Rules("CLASS_CONTENT", <<T(0), N(1, <<"METHODDEF", "CLASS_CONTENT">>)>>) \o
  Rules("FUNCTIONDEF", <<
    N(14, <<"IDENTIFIER", "FUNCTIONARGS", "FUNCTIONBODY">>),
    N(4, <<"IDENTIFIER", "EXPR">>), N(8, <<"IDENTIFIER", "FUNCTIONBODY">>),
    N(4, <<"FUNCTIONARGS", "EXPR">>),
    N(8, <<"FUNCTIONARGS", "FUNCTIONBODY">>)>>) \o
  Rules("METHODDEF", <<
    N(5, <<"IDENTIFIER", "FUNCTIONARGS", "FUNCTIONBODY">>)>>) \o
  Rules("FUNCTIONBODY", <<N(0, <<"PROGRAM">>)>>) \o
  Rules("FUNCTIONARGS", <<T(2), N(2, <<"IDENTIFIERLIST">>)>>) \o
  Rules("IDENTIFIERLIST", <<N(0, <<"IDENTIFIER">>),
    N(2, <<"IDENTIFIER", "IDENTIFIERLIST">>)>>) \o
  Rules("EXPR", <<N(2, <<"EXPR">>), N(2, <<"OBJMEMBER">>), N(0, <<"VAR">>),
    N(3, <<"VAR">>), N(7, <<"EXPR">>), N(4, <<"IDENTIFIER", "ARGS">>),
    N(6, <<"EXPR">>), N(0, <<"LITERAL">>), N(0, <<"IDENTIFIER">>),
    N(0, <<"EXPR", "ASSIGNMENTOPERATION">>), N(0, <<"METHODCALL">>),
    N(2, <<"ARITHMETICOPERATION">>), N(2, <<"COMPARISONOPERATION">>),
    N(2, <<"BYTEWISEOPERATION">>), N(2, <<"LOGICALOPERATION">>),
    N(8, <<"EXPR", "EXPR", "EXPR">>), N(2, <<"EXPR", "EXPR">>)>>)

JsOperations ==
  Rules("ARITHMETICOPERATION", <<N(1, <<"EXPR", "EXPR">>),
    N(2, <<"EXPR", "EXPR">>), N(2, <<"EXPR">>)>>) \o
  Rules("ASSIGNMENTOPERATION", <<N(1, <<"EXPR">>), N(2, <<"EXPR">>),
    N(3, <<"EXPR">>), N(4, <<"EXPR">>)>>) \o
  Rules("BYTEWISEOPERATION", <<N(3, <<"EXPR", "EXPR">>), N(1, <<"EXPR">>),
    N(4, <<"EXPR", "EXPR">>), N(5, <<"EXPR", "EXPR">>)>>) \o
  Rules("COMPARISONOPERATION", <<N(1, <<"EXPR", "EXPR">>),
    N(2, <<"EXPR", "EXPR">>), N(3, <<"EXPR", "EXPR">>)>>) \o
  Rules("LOGICALOPERATION", <<N(4, <<"EXPR", "EXPR">>), N(1, <<"EXPR">>)>>) \o
  Rules("LITERAL", <<T(4), N(0, <<"BOOLEAN">>), N(0, <<"NUMBER">>),
    N(0, <<"STRING">>), N(0, <<"ARRAY">>), N(0, <<"REGEX">>)>>)

JsNumbers ==
  Rules("BOOLEAN", <<T(4), T(5)>>) \o
  Rules("BINARYDIGITS", <<T(1), T(31)>>) \o
  Rules("OCTALDIGITS", <<T(1), T(22)>>) \o
  Rules("OCTALDIGIT", <<T(1)>>) \o
  Rules("DECIMALDIGITS", <<T(1), T(20)>>) \o
  Rules("HEXDIGITS", <<T(1), T(20)>>) \o
  Rules("HEXDIGIT", <<T(1)>>) \o
  Rules("HEXNUMBER", <<N(2, <<"BINARYDIGITS">>)>>) \o
  Rules("EXPONENT", <<N(1, <<"DECIMALDIGITS">>),
    N(2, <<"DECIMALDIGITS">>)>>) \o
  Rules("DECIMALNUMBER", <<N(0, <<"DECIMALDIGITS">>),
    N(2, <<"DECIMALDIGITS">>)>>) \o
  Rules("HEXNUMBER", <<N(2, <<"HEXDIGITS">>)>>) \o
  Rules("OCTALNUMBER", <<N(2, <<"OCTALDIGITS">>), N(1, <<"OCTALDIGITS">>)>>) \o
  Rules("FLOATNUMBER", <<N(1, <<"DECIMALNUMBER", "DECIMALDIGITS">>),
    N(1, <<"OCTALNUMBER", "OCTALDIGITS">>),
    N(1, <<"HEXNUMBER", "HEXDIGITS">>),
    N(1, <<"DECIMALNUMBER", "DECIMALDIGITS", "EXPONENT">>),
    N(1, <<"OCTALNUMBER", "OCTALDIGITS", "EXPONENT">>),
    N(1, <<"HEXNUMBER", "HEXDIGITS", "EXPONENT">>)>>) \o
  Rules("NUMBER", <<N(0, <<"OCTALNUMBER">>), N(0, <<"FLOATNUMBER">>),
    N(0, <<"HEXNUMBER">>), N(0, <<"DECIMALNUMBER">>), T(1), T(96)>>)

JsStrings ==
  Rules("DOUBLEQUOTEDWORD", <<N(0, <<"NAUGHTYSTRING">>)>>) \o
  Rules("DOUBLEQUOTEDSTRING", <<N(0, <<"DOUBLEQUOTEDWORD">>),
    N(1, <<"DOUBLEQUOTEDSTRING">>),
    N(0, <<"NUMBER", "DOUBLEQUOTEDSTRING">>),
    N(0, <<"ESCAPEDCHARACTERS", "DOUBLEQUOTEDSTRING">>),
    N(3, <<"EXPR", "DOUBLEQUOTEDSTRING">>), T(0)>>) \o
  Rules("TEMPLATESTRING", <<
    N(3, <<"DOUBLEQUOTEDSTRING", "EXPR", "TEMPLATESTRING">>), T(0)>>) \o
  Rules("STRING", <<N(2, <<"DOUBLEQUOTEDSTRING">>),
    N(2, <<"TEMPLATESTRING">>)>>) \o
  Rules("ARRAY", <<N(2, <<"ARRAYCONTENT">>), T(2)>>) \o
  Rules("ARRAYCONTENT", <<N(2, <<"EXPR", "ARRAYCONTENT">>),
    N(0, <<"EXPR">>)>>) \o
  Rules("REGEX", <<N(2, <<"REGEXPATTERN">>), N(3, <<"REGEXPATTERN">>)>>) \o
  Rules("REGEXPATTERN", <<N(0, <<"DOUBLEQUOTEDSTRING">>)>>) \o
  Rules("ESCAPEDCHARACTERS", <<T(1), T(2),
    N(2, <<"HEXDIGIT", "HEXDIGIT", "HEXDIGIT", "HEXDIGIT">>),
    N(2, <<"OCTALDIGIT", "OCTALDIGIT">>),
    N(2, <<"HEXDIGIT", "HEXDIGIT">>)>>)

JsNaughtyStrings ==
  Rules("NAUGHTYSTRING", <<T(1), T(1887)>>)

JsNames ==
  Rules("IDENTIFIER", <<N(0, <<"VAR">>), T(24), T(0)>>) \o
  Rules("SIMD_TYPE", <<N(0, <<"SIMD_TYPE_BOOL">>),
    N(0, <<"SIMD_TYPE_INT">>), N(0, <<"SIMD_TYPE_UINT">>),
    N(0, <<"SIMD_TYPE_FLOAT">>)>>) \o
  Rules("SIMD_TYPE_BOOL", <<T(8)>>) \o
  Rules("SIMD_TYPE_INT", <<T(7)>>) \o
  Rules("SIMD_TYPE_UINT", <<T(8)>>) \o
  Rules("SIMD_TYPE_FLOAT", <<T(9)>>) \o
  Rules("SIMD_FUNCTION", <<T(27), T(2)>>)

JavaScript ==
  JsObjects \o JsGlobalMethods \o JsDateMethods \o JsOtherMethods \o
  JsProperties \o JsStatements \o JsOperations \o JsNumbers \o
  JsStrings \o JsNaughtyStrings \o JsNames

-----------------------------------------------------------------------------
(* ruby_custom.py *)

RubySyntax ==
  Rules("START", <<N(131, <<"PROGRAM">>)>>) \o
  Rules("PROGRAM", <<N(0, <<"STATEMENT", "NEWLINE", "PROGRAM">>), T(0)>>) \o
  Rules("STATEMENT", <<
    N(11, <<"VAR", "IDENTIFIER", "ARGS", "NEWLINE", "PROGRAM">>),
    N(12, <<"VAR", "VAR", "IDENTIFIER", "ARGS", "ARGS", "PROGRAM">>),
    N(12, <<"VAR", "IDENTIFIER", "IDENTIFIER", "ARGS", "ARGS", "PROGRAM">>),
    N(3, <<"VAR", "VAL">>), N(7, <<"VAR">>), N(6, <<"VAR">>),
    N(9, <<"VAR">>), N(5, <<"VAR">>)>>) \o
  Rules("VAR", <<T(1)>>) \o
  Rules("ARGS", <<T(0), N(0, <<"VAR">>), N(1, <<"VAR", "ARGS">>)>>) \o
  Rules("VAL", <<T(57), T(1), N(4, <<"VAL", "VAL">>)>>) \o
  Rules("NEWLINE", <<T(1)>>)

RubyNamesAtoB ==
  Rules("IDENTIFIER", <<T(26), T(2)>>)

RubyNamesCtoD ==
  Rules("IDENTIFIER", <<T(23), T(2)>>)

RubyNamesEtoF ==
  Rules("IDENTIFIER", <<T(2), T(21)>>)

RubyNamesGtoJ ==
  Rules("IDENTIFIER", <<T(2), T(27)>>)

RubyNamesKtoL ==
  Rules("IDENTIFIER", <<T(19), T(2)>>)

RubyNamesM ==
  Rules("IDENTIFIER", <<T(3), T(26)>>)

RubyNamesNtoP ==
  Rules("IDENTIFIER", <<T(2), T(19)>>)

RubyNamesQtoS ==
  Rules("IDENTIFIER", <<T(2), T(24)>>)

RubyNamesT ==
  Rules("IDENTIFIER", <<T(2), T(17)>>)

RubyNamesUtoZ ==
  Rules("IDENTIFIER", <<T(14), T(2)>>)

Ruby ==
  RubySyntax \o RubyNamesAtoB \o RubyNamesCtoD \o RubyNamesEtoF \o
  RubyNamesGtoJ \o RubyNamesKtoL \o RubyNamesM \o RubyNamesNtoP \o
  RubyNamesQtoS \o RubyNamesT \o RubyNamesUtoZ

-----------------------------------------------------------------------------
(* php_custom.py *)

PhpSyntax ==
  Rules("START", <<N(65, <<"PROGRAM">>)>>) \o
  Rules("PROGRAM", <<N(2, <<"STATEMENT", "PROGRAM">>), T(0)>>) \o
  Rules("STATEMENT", <<N(13, <<"FUNCTION", "ARGS", "PROGRAM">>),
    N(5, <<"VAR", "FUNCTION", "ARGS">>),
    N(7, <<"VAR", "VAR", "FUNCTION", "ARGS">>),
    N(7, <<"VAR", "CLASS", "FUNCTION", "ARGS">>), N(3, <<"VAR", "VAL">>),
    N(7, <<"VAR">>), N(6, <<"VAR">>), N(9, <<"VAR">>), N(5, <<"VAR">>)>>) \o
  Rules("VAR", <<T(2)>>) \o
  Rules("ARGS", <<T(0), N(0, <<"VAR">>), N(1, <<"VAR", "ARGS">>)>>) \o
  Rules("VAL", <<T(57), T(1), N(8, <<"VAL", "VAL">>)>>) \o
  Rules("CLASSORFUNCTION", <<N(0, <<"CLASS">>), N(0, <<"FUNCTION">>)>>)

PhpClasses ==
  Rules("CLASS", <<T(44), T(3)>>)

PhpMoreClasses ==
  Rules("CLASS", <<T(47), T(2)>>)

PhpOtherClasses ==
  Rules("CLASS", <<T(4), T(39)>>)

PhpLastClasses ==
  Rules("CLASS", <<T(3), T(43)>>)

PhpFunctions ==
  Rules("FUNCTION", <<T(2), T(55)>>)

Php ==
  PhpSyntax \o PhpClasses \o PhpMoreClasses \o PhpOtherClasses \o
  PhpLastClasses \o PhpFunctions

-----------------------------------------------------------------------------
(* url_schema.py *)

UrlSchemes ==
  Rules("START", <<N(0, <<"Url">>)>>) \o
  Rules("Url", <<N(0, <<"Httpurl">>), N(0, <<"Ftpurl">>),
    N(0, <<"Telneturl">>), N(0, <<"Mailtourl">>), N(0, <<"Fileurl">>),
    N(0, <<"Otherurl">>)>>) \o
  Rules("Otherurl", <<N(0, <<"Genericurl">>)>>) \o
  Rules("Genericurl", <<N(1, <<"Scheme", "Schemepart">>)>>) \o
  Rules("Scheme", <<N(0, <<"Lowalpha", "Scheme_term">>),
    N(0, <<"Digit", "Scheme_term">>), N(1, <<"Scheme_term">>)>>) \o
  Rules("Scheme_term", <<N(0, <<"Scheme">>), T(0)>>) \o
  Rules("Schemepart", <<N(0, <<"Schemepart_xchar">>),
    N(0, <<"Ip_schemepart">>)>>) \o
  Rules("Schemepart_xchar", <<N(0, <<"Xchar", "Schemepart_xchar">>), T(0)>>) \o
  Rules("Ip_schemepart", <<N(2, <<"Login">>),
    N(3, <<"Login", "Urlpath">>)>>) \o
  Rules("Login", <<N(0, <<"Hostport">>), N(1, <<"User", "Hostport">>),
    N(2, <<"User", "Password", "Hostport">>)>>) \o
  Rules("Hostport", <<N(0, <<"Host">>), N(1, <<"Host", "Port">>)>>) \o
  Rules("Host", <<N(0, <<"Hostname">>), N(0, <<"Hostnumber">>)>>) \o
  Rules("Hostname", <<N(0, <<"Hostname_domainlabel", "Toplabel">>),
    N(0, <<"Toplabel">>)>>) \o
  Rules("Hostname_domainlabel", <<
    N(1, <<"Domainlabel", "Hostname_domainlabel">>), T(0)>>) \o
  Rules("Domainlabel", <<N(0, <<"Domainlabel">>),
    N(0, <<"Alphadigit", "Domainlabel">>),
    N(0, <<"Alphadigit", "Dashes", "Alphadigit">>)>>) \o
  Rules("Dashes", <<N(1, <<"Dashes">>), T(0)>>) \o
  Rules("Toplabel", <<N(0, <<"Alpha">>), N(0, <<"Toplabel_second">>)>>) \o
  Rules("Toplabel_second", <<N(0, <<"Alphadigit", "Toplabel_second">>),
    N(0, <<"Alphadigit", "Dashes", "Alphadigit">>)>>) \o
  Rules("Alphadigit", <<N(0, <<"Alpha">>), N(0, <<"Digit">>)>>) \o
  Rules("Hostnumber", <<N(3, <<"Digits", "Digits", "Digits", "Digits">>)>>) \o
  Rules("Port", <<N(0, <<"Digits">>)>>) \o
  Rules("User", <<N(0, <<"Segment">>)>>) \o
  Rules("Password", <<N(0, <<"Segment">>)>>) \o
  Rules("Urlpath", <<N(0, <<"Xchar", "Urlpath">>), T(0)>>) \o
  Rules("Ftpurl", <<N(6, <<"Login">>), N(7, <<"Login", "Fpath">>),
    N(13, <<"Login", "Fpath", "Ftptype">>)>>) \o
  Rules("Fpath", <<N(0, <<"Fsegment">>), N(1, <<"Fsegment", "Fpath">>)>>) \o
  Rules("Fsegment", <<N(0, <<"Segment">>)>>) \o
  Rules("Ftptype", <<T(1)>>) \o
  Rules("Fileurl", <<N(8, <<"Host", "Fpath">>), N(17, <<"Fpath">>)>>) \o
  Rules("Httpurl", <<N(3, <<"Http_schema", "Hostport">>),
    N(4, <<"Http_schema", "Hostport", "Hpath">>),
    N(5, <<"Http_schema", "Hostport", "Hpath", "Search">>)>>) \o
  Rules("Http_schema", <<T(4), T(5)>>) \o
  Rules("Hpath", <<N(0, <<"Hsegment">>), N(1, <<"Hsegment", "Hpath">>)>>) \o
  Rules("Hsegment", <<T(7)>>) \o
  Rules("Search", <<T(7)>>) \o
  Rules("Mailtourl", <<N(7, <<"Encoded822addr">>)>>) \o
  Rules("Encoded822addr", <<N(0, <<"Xchar">>),
    N(0, <<"Xchar", "Encoded822addr">>)>>) \o
  Rules("Telneturl", <<N(9, <<"Login">>), N(10, <<"Login">>)>>) \o
  Rules("Segment", <<N(0, <<"Uchar", "Segment">>), N(1, <<"Segment">>),
    T(0)>>)

UrlCharacters ==
  Rules("Lowalpha", <<T(1)>>) \o
  Rules("Hialpha", <<T(1)>>) \o
  Rules("Alpha", <<N(0, <<"Lowalpha">>), N(0, <<"Hialpha">>)>>) \o
  Rules("Digit", <<T(1)>>) \o
  Rules("Safe", <<T(1)>>) \o
  Rules("Extra", <<T(1)>>) \o
  Rules("National", <<T(1)>>) \o
  Rules("Punctuation", <<T(1)>>) \o
  Rules("Reserved", <<T(1)>>) \o
  Rules("Hex", <<N(0, <<"Digit">>), T(1)>>) \o
  Rules("Escape", <<N(1, <<"Hex", "Hex">>)>>) \o
  Rules("Unreserved", <<N(0, <<"Alpha">>), N(0, <<"Digit">>),
    N(0, <<"Safe">>), N(0, <<"Extra">>)>>) \o
  Rules("Uchar", <<N(0, <<"Unreserved">>), N(0, <<"Escape">>)>>) \o
  Rules("Xchar", <<N(0, <<"Unreserved">>), N(0, <<"Reserved">>),
    N(0, <<"Escape">>)>>) \o
  Rules("Digits", <<N(0, <<"Digit">>), N(0, <<"Digit", "Digits">>)>>) \o
  Rules("Alpha", <<N(0, <<"NAUGHTYSTRING">>)>>) \o
  Rules("Digit", <<N(0, <<"NAUGHTYSTRING">>)>>)

UrlNaughtyStrings ==
  Rules("NAUGHTYSTRING", <<T(1), T(1887)>>)

UrlSchema ==
  UrlSchemes \o UrlCharacters \o UrlNaughtyStrings
=============================================================================

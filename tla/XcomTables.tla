-------------------------------- MODULE XcomTables --------------------------------
(***************************************************************************)
(* The property tables of the Xcom-485i devices: which ids each model has, *)
(* what may be done with them and at which register they are.  Names,      *)
(* units, texts of enumerations and access levels are left out; numbers,   *)
(* enumerations, Booleans and days of the week travel alike, as a float.   *)
(*                                                                         *)
(* A section is a group of table rows.  Every row of these tables has its  *)
(* register at twice the distance of its id from the first id of its kind; *)
(* two rows of the battery manager are exchanged.                          *)
(***************************************************************************)
EXTENDS Naturals

None == [infos |-> {}, numbers |-> {}, times |-> {}, signals |-> {}]

Infos(ids) == [None EXCEPT !.infos = ids]

-----------------------------------------------------------------------------

XtenderInfos ==
  Infos(UNION {3000..3008, 3010..3013, 3017..3023, 3030..3032, 3045..3047, 3049..3051,
               3054..3056, 3074..3076, 3080..3086, {3028, 3078}})

XtenderMoreInfos ==
  Infos(UNION {3087..3122, 3124..3142, 3154..3162, 3164..3169})

XtenderBattery ==
  [None EXCEPT
    !.numbers = UNION {1107..1110, 1121..1122, 1124..1126, 1138..1140, 1143..1149, 1155..1161,
                       1163..1166, 1168..1176, 1190..1191, 1194..1195, 1284..1285, 1290..1291,
                       {1187, 1298, 1307, 1532, 1552, 1608, 1615, 1632, 1646}},
    !.signals = {1142, 1162, 1287, 1395, 1467}]

XtenderInverter ==
  [None EXCEPT
    !.numbers = UNION {1188..1189, 1198..1200, 1432..1433, 1505..1507, 1548..1549, 1553..1554,
                       1559..1560, 1566..1567, {1112, 1128, 1286, 1295, 1309, 1436, 1438, 1500,
                       1510, 1527, 1534, 1536, 1546, 1557, 1572, 1575, 1580, 1599, 1607}}]

XtenderAux1 ==
  [None EXCEPT
    !.numbers = UNION {1225..1229, 1231..1240, 1242..1244, 1246..1256, 1258..1268, 1439..1441,
                       1446..1448, 1581..1589, {1202, 1205, 1209, 1213, 1217, 1221, 1271, 1275,
                       1279, 1288, 1497, 1512, 1514, 1516, 1518, 1520, 1543, 1601, 1644}},
    !.times = UNION {1206..1207, 1210..1211, 1214..1215, 1218..1219, 1222..1223, 1272..1273,
                     1276..1277, 1280..1281},
    !.signals = {1569}]

XtenderAux2 ==
  [None EXCEPT
    !.numbers = UNION {1333..1337, 1339..1348, 1350..1352, 1354..1365, 1367..1377, 1442..1444,
                       1457..1459, 1590..1598, {1311, 1314, 1318, 1322, 1326, 1330, 1380, 1384,
                       1388, 1498, 1513, 1515, 1517, 1519, 1521, 1544, 1602, 1643}},
    !.times = UNION {1315..1316, 1319..1320, 1323..1324, 1327..1328, 1331..1332, 1381..1382,
                     1385..1386, 1389..1390},
    !.signals = {1570}]

XtenderSystem ==
  [None EXCEPT
    !.numbers = UNION {1130..1132, 1296..1297, 1304..1305, 1404..1405, 1461..1462, 1485..1486,
                       1491..1494, 1523..1524, 1538..1542, 1555..1556, 1576..1579, 1616..1624,
                       1627..1631, 1647..1649, {1111, 1127, 1134, 1283, 1391, 1437, 1533, 1545,
                       1547, 1550, 1558, 1565, 1571, 1574, 1600, 1610, 1613, 1640}},
    !.times = 1525..1526,
    !.signals = {1399, 1415, 1468}]

XtenderOfXTS ==
  [None EXCEPT
    !.numbers = UNION {1561..1562, {1551}}]

XtenderOfOthers ==
  [None EXCEPT
    !.numbers = {1645}]

VarioTrackInfos ==
  Infos(UNION {11000..11021, 11025..11026, 11037..11041, 11043..11052, 11061..11064,
               11066..11069, 11076..11080, {11034, 11082}})

VarioTrackSystem ==
  [None EXCEPT
    !.numbers = UNION {10001..10002, 10008..10009, 10011..10013, 10019..10022, 10025..10027,
                       10030..10037, 10052..10054, 10085..10087, 10313..10317, 10334..10336,
                       10342..10343, {10005, 10017, 10058, 10060, 10075, 10103}},
    !.signals = UNION {10039..10040, 10043..10044, 10056..10057, 10200..10201, {10006, 10010,
                       10018, 10029, 10051}}]

VarioTrackAux12 ==
  [None EXCEPT
    !.numbers = UNION {10089..10091, 10093..10095, 10097..10100, 10104..10109, 10111..10122,
                       10124..10127, 10129..10140, 10143..10145, 10147..10149, 10151..10154,
                       10158..10163, 10165..10176, 10178..10181, 10183..10194, 10198..10199,
                       10308..10309, {10102, 10156, 10319, 10323}},
    !.times = UNION {10320..10321, 10324..10325},
    !.signals = {10141, 10195}]

VarioTrackAux34 ==
  [None EXCEPT
    !.numbers = UNION {10203..10204, 10206..10208, 10210..10222, 10224..10235, 10237..10240,
                       10242..10253, 10256..10257, 10259..10261, 10263..10275, 10277..10288,
                       10290..10293, 10295..10306, 10310..10311, {10327, 10331}},
    !.times = UNION {10328..10329, 10332..10333},
    !.signals = {10254, 10307}]

VarioStringInfos ==
  Infos(UNION {15000..15046, {15049}})

VarioStringMoreInfos ==
  Infos(UNION {15050..15079, 15088..15091, 15102..15103, 15108..15109, {15111}})

VarioStringSystem ==
  [None EXCEPT
    !.numbers = UNION {14008..14009, 14011..14013, 14019..14026, 14029..14036, 14065..14066,
                       14192..14193, 14201..14205, 14218..14219, {14005, 14017, 14040, 14069,
                       14174, 14216}},
    !.signals = UNION {14038..14039, 14051..14052, 14067..14068, 14182..14183, {14006, 14010,
                       14018, 14028, 14059}}]

VarioStringAux ==
  [None EXCEPT
    !.numbers = UNION {14071..14072, 14074..14076, 14078..14089, 14091..14102, 14104..14107,
                       14109..14120, 14123..14124, 14126..14128, 14130..14141, 14143..14154,
                       14156..14159, 14161..14172, 14188..14189, 14214..14215, {14207, 14211}},
    !.times = UNION {14208..14209, 14212..14213},
    !.signals = {14121, 14173}]

VarioStringOf120 ==
  [None EXCEPT
    !.numbers = UNION {14001..14002, 14041..14048, 14175..14179},
    !.signals = {14190}]

VarioStringOf70 ==
  [None EXCEPT
    !.numbers = UNION {14196..14199, {14217}}]

BatteryCommon ==
  [None EXCEPT
    !.signals = 6004..6005]

BatteryOfBSP ==
  [None EXCEPT
    !.infos = UNION {7000..7004, 7006..7013, 7017..7019, 7029..7041, 7047..7049, 7059..7060},
    !.numbers = UNION {6001..6002, 6017..6025, 6048..6049, 6055..6059, {6042, 6044, 6065}},
    !.signals = {6003, 6031}]

BatteryOfXcomCAN ==
  [None EXCEPT
    !.infos = UNION {7000..7003, 7007..7010, 7029..7033, 7057..7058, 7061..7067, {7047, 7055}},
    !.numbers = UNION {6062..6064, 6066..6078}]

-----------------------------------------------------------------------------

\* Which tables the constructor of each model puts together.
Sections ==
  LET xtender == {XtenderInfos, XtenderMoreInfos, XtenderBattery, XtenderInverter, XtenderAux1, XtenderAux2, XtenderSystem}
      varioTrack == {VarioTrackInfos, VarioTrackSystem, VarioTrackAux12, VarioTrackAux34}
      varioString == {VarioStringInfos, VarioStringMoreInfos, VarioStringSystem, VarioStringAux} IN
  [XTH |-> xtender \cup {XtenderOfOthers},
   XTM |-> xtender \cup {XtenderOfOthers},
   XTS |-> xtender \cup {XtenderOfXTS},
   XtenderMulticast |-> xtender \cup {XtenderOfXTS, XtenderOfOthers},
   VT65 |-> varioTrack,
   VT80 |-> varioTrack,
   VarioTrackMulticast |-> varioTrack,
   VS70 |-> varioString \cup {VarioStringOf70},
   VS120 |-> varioString \cup {VarioStringOf120},
   VarioStringMulticast |-> varioString \cup {VarioStringOf70, VarioStringOf120},
   BSP |-> {BatteryCommon, BatteryOfBSP},
   XComCAN_BMS |-> {BatteryCommon, BatteryOfXcomCAN}]

Models == DOMAIN Sections

InfoIds == [model \in Models |-> UNION {section.infos : section \in Sections[model]}]
NumberIds == [model \in Models |-> UNION {section.numbers : section \in Sections[model]}]
TimeIds == [model \in Models |-> UNION {section.times : section \in Sections[model]}]
SignalIds == [model \in Models |-> UNION {section.signals : section \in Sections[model]}]
WriteableIds == [model \in Models |-> NumberIds[model] \cup TimeIds[model] \cup SignalIds[model]]
Ids == [model \in Models |-> InfoIds[model] \cup WriteableIds[model]]

\* The first id of the kind of an id.
FirstId(id) ==
  LET firsts == {1100, 3000, 6000, 7000, 10000, 11000, 14000, 15000} IN
  CHOOSE first \in firsts : first <= id /\ \A other \in firsts : other <= id => other <= first

\* modbusRegisterAddresses_: the first of the two registers of a property.
Register ==
  [id \in UNION {Ids[model] : model \in Models} |->
    CASE id = 6066 -> 134 [] id = 6067 -> 132 [] OTHER -> 2 * (id - FirstId(id))]

\* The battery manager's model register holds no number.
NotANumber == 65535

\* What model() makes of the reading of the model register.
ModelOf(family, reading) ==
  CASE family = "Xtender" -> CASE reading = 1 -> "XTH" [] reading = 256 -> "XTM" [] reading = 512 -> "XTS" [] OTHER -> "Invalid"
    [] family = "VarioTrack" -> CASE reading = 0 -> "VT80" [] reading = 1 -> "VT65" [] OTHER -> "Invalid"
    [] family = "VarioString" -> CASE reading = 12801 -> "VS120" [] reading = 13057 -> "VS70" [] OTHER -> "Invalid"
    [] family = "BatteryManager" -> IF reading = NotANumber THEN "BSP" ELSE "XComCAN_BMS"

=============================================================================

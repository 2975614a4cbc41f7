----------------------------- MODULE NasEsmIes -----------------------------
(***************************************************************************)
(* NAS information elements of 24.301 section 9.9.4: session management.   *)
(* One layout per function of liblte_mme.cc, named without the prefix      *)
(* liblte_mme_.                                                            *)
(***************************************************************************)
EXTENDS NasEmmIes

(* A packet filter and a parameter of a traffic flow template. *)
TftFilter ==
  <<Fld("dir", 4), Fld("id", 4), Fld("eval_precedence", 8), Cnt("filter_size", 8, 0),
    Each("filter_size", "filter", <<Fld("", 8)>>)>>
TftParameter ==
  <<Fld("id", 8), Cnt("parameter_size", 8, 0), Each("parameter_size", "parameter", <<Fld("", 8)>>)>>

(* The name is a list of one or more labels, joined by dots in the C string. *)
pack_access_point_name_ie ==
  <<Framed(<<Each("N_labels", "label",
      <<Cnt("len", 8, 0), Each("len", "c", <<Fld("", 8)>>)>>)>>, 0)>>

unpack_access_point_name_ie ==
  <<Counted(1, <<Skip(8), Put("N_labels", 0),
      While(0, <<More("N_labels", "label",
        <<Cnt("len", 8, 0), Each("len", "c", <<Fld("", 8)>>)>>)>>)>>)>>

pack_apn_aggregate_maximum_bit_rate_ie ==
  <<Case(On("ext_present"),
      <<Case(On("ext2_present"), <<Fill(6, 8)>>, <<Fill(4, 8)>>)>>, <<Fill(2, 8)>>),
    Fld("apn_ambr_dl", 8), Fld("apn_ambr_ul", 8),
    When(On("ext_present"),
      <<Fld("apn_ambr_dl_ext", 8), Fld("apn_ambr_ul_ext", 8),
        (* Without the first extension the second is written but not counted. *)
        When(On("ext2_present"), <<Fld("apn_ambr_dl_ext2", 8), Fld("apn_ambr_ul_ext2", 8)>>)>>)>>

unpack_apn_aggregate_maximum_bit_rate_ie ==
  <<Fld("length", 8),
    Switch("length",
      <<Arm({6}, <<Put("ext_present", 1), Put("ext2_present", 1)>>),
        Arm({4}, <<Put("ext_present", 1), Put("ext2_present", 0)>>)>>,
      <<Put("ext_present", 0), Put("ext2_present", 0)>>),
    Fld("apn_ambr_dl", 8), Fld("apn_ambr_ul", 8),
    When(On("ext_present"), <<Fld("apn_ambr_dl_ext", 8), Fld("apn_ambr_ul_ext", 8)>>),
    When(On("ext2_present"), <<Fld("apn_ambr_dl_ext2", 8), Fld("apn_ambr_ul_ext2", 8)>>)>>

pack_connectivity_type_ie == <<Fld("", 4)>>

unpack_connectivity_type_ie == <<Fld("", 4)>>

pack_eps_quality_of_service_ie ==
  <<Case(On("br_present"),
      <<Case(On("br_ext_present"), <<Fill(9, 8)>>, <<Fill(5, 8)>>)>>, <<Fill(1, 8)>>),
    Fld("qci", 8),
    When(On("br_present"),
      <<Fld("mbr_ul", 8), Fld("mbr_dl", 8), Fld("gbr_ul", 8), Fld("gbr_dl", 8),
        When(On("br_ext_present"),
          <<Fld("mbr_ul_ext", 8), Fld("mbr_dl_ext", 8), Fld("gbr_ul_ext", 8),
            Fld("gbr_dl_ext", 8)>>)>>)>>

unpack_eps_quality_of_service_ie ==
  <<Fld("length", 8),
    Switch("length",
      <<Arm({1}, <<Put("br_present", 0), Put("br_ext_present", 0)>>),
        Arm({5}, <<Put("br_present", 1), Put("br_ext_present", 0)>>)>>,
      <<Put("br_present", 1), Put("br_ext_present", 1)>>),
    Fld("qci", 8),
    When(On("br_present"),
      <<Fld("mbr_ul", 8), Fld("mbr_dl", 8), Fld("gbr_ul", 8), Fld("gbr_dl", 8)>>),
    When(On("br_ext_present"),
      <<Fld("mbr_ul_ext", 8), Fld("mbr_dl_ext", 8), Fld("gbr_ul_ext", 8),
        Fld("gbr_dl_ext", 8)>>)>>

pack_esm_cause_ie == <<Fld("", 8)>>

unpack_esm_cause_ie == <<Fld("", 8)>>

pack_esm_info_transfer_flag_ie == <<Enum("", 4, 2)>>

unpack_esm_info_transfer_flag_ie == <<Skip(3), Fld("", 1)>>

pack_linked_eps_bearer_identity_ie == <<Fld("", 4)>>

unpack_linked_eps_bearer_identity_ie == <<Fld("", 4)>>

pack_llc_service_access_point_identifier_ie == <<Fld("", 8)>>

unpack_llc_service_access_point_identifier_ie == <<Fld("", 8)>>

pack_notification_indicator_ie == <<Fill(1, 8), Fld("", 8)>>

unpack_notification_indicator_ie == <<Skip(8), Fld("", 8)>>

pack_packet_flow_identifier_ie == <<Fill(1, 8), Fld("", 8)>>

unpack_packet_flow_identifier_ie == <<Counted(0, <<Skip(8), Fld("", 8)>>)>>

pack_pdn_address_ie ==
  <<Switch("pdn_type", <<Arm({1}, <<Fill(5, 8)>>), Arm({2}, <<Fill(9, 8)>>)>>, <<Fill(13, 8)>>),
    Fill(0, 5), Fld("pdn_type", 3),
    Switch("pdn_type",
      <<Arm({1}, <<Times(4, "addr", <<Fld("", 8)>>)>>),
        Arm({2}, <<Times(8, "addr", <<Fld("", 8)>>)>>)>>,
      <<Times(12, "addr", <<Fld("", 8)>>)>>)>>

unpack_pdn_address_ie ==
  (* The step forward does not count the length octet. *)
  <<Counted(0,
      <<Skip(13), Fld("pdn_type", 3),
        Switch("pdn_type",
          <<Arm({1}, <<Times(4, "addr", <<Fld("", 8)>>)>>),
            Arm({2}, <<Times(8, "addr", <<Fld("", 8)>>)>>)>>,
          <<Times(12, "addr", <<Fld("", 8)>>)>>)>>)>>

pack_pdn_type_ie == <<Enum("", 4, 8)>>

unpack_pdn_type_ie == <<Skip(1), Fld("", 3)>>

pack_protocol_config_options_ie ==
  <<Framed(<<Fill(128, 8),
      Each("N_opts", "opt",
        <<Fld("id", 16), Cnt("len", 8, 0), Each("len", "contents", <<Fld("", 8)>>)>>)>>, 0)>>

unpack_protocol_config_options_ie ==
  <<Counted(1, <<Skip(16), Put("N_opts", 0),
      While(1, <<More("N_opts", "opt",
        <<Fld("id", 16), Cnt("len", 8, 0), Each("len", "contents", <<Fld("", 8)>>)>>)>>)>>)>>

pack_quality_of_service_ie ==
  <<Case(On("dl_ext_present"),
      <<Case(On("ul_ext_present"), <<Fill(16, 8)>>, <<Fill(14, 8)>>)>>, <<Fill(12, 8)>>),
    Fill(0, 2), Fld("delay_class", 3), Fld("reliability_class", 3), Fld("peak_throughput", 4),
    Fill(0, 1), Fld("precedence_class", 3), Fill(0, 3), Fld("mean_throughput", 5),
    Fld("traffic_class", 3), Fld("delivery_order", 2), Fill(0, 1), Fld("delivery_of_erroneous_sdu", 2),
    Fld("max_sdu_size", 8), Fld("mbr_ul", 8), Fld("mbr_dl", 8), Fld("residual_ber", 4),
    Fld("sdu_error_ratio", 4), Fld("transfer_delay", 6), Fld("traffic_handling_prio", 2),
    Fld("gbr_ul", 8), Fld("gbr_dl", 8), Fill(0, 3), Fld("signalling_ind", 1),
    Fld("source_stats_descriptor", 4),
    When(On("dl_ext_present"),
      <<Fld("mbr_dl_ext", 8), Fld("gbr_dl_ext", 8),
        When(On("ul_ext_present"), <<Fld("mbr_ul_ext", 8), Fld("gbr_ul_ext", 8)>>)>>)>>

unpack_quality_of_service_ie ==
  <<Fld("length", 8),
    Switch("length",
      <<Arm({16}, <<Put("dl_ext_present", 1), Put("ul_ext_present", 1)>>),
        Arm({14}, <<Put("dl_ext_present", 1), Put("ul_ext_present", 0)>>)>>,
      <<Put("dl_ext_present", 0), Put("ul_ext_present", 0)>>),
    Skip(2), Fld("delay_class", 3), Fld("reliability_class", 3), Fld("peak_throughput", 4),
    Skip(1), Fld("precedence_class", 3), Skip(3), Fld("mean_throughput", 5),
    Fld("traffic_class", 3), Fld("delivery_order", 2), Fld("delivery_of_erroneous_sdu", 3),
    Fld("max_sdu_size", 8), Fld("mbr_ul", 8), Fld("mbr_dl", 8), Fld("residual_ber", 4),
    Fld("sdu_error_ratio", 4), Fld("transfer_delay", 6), Fld("traffic_handling_prio", 2),
    Fld("gbr_ul", 8), Fld("gbr_dl", 8), Skip(3), Fld("signalling_ind", 1),
    Fld("source_stats_descriptor", 4),
    When(On("dl_ext_present"), <<Fld("mbr_dl_ext", 8), Fld("gbr_dl_ext", 8)>>),
    When(On("ul_ext_present"), <<Fld("mbr_ul_ext", 8), Fld("gbr_ul_ext", 8)>>)>>

pack_radio_priority_ie == <<Enum("", 4, 8)>>

unpack_radio_priority_ie == <<Skip(1), Fld("", 3)>>

pack_request_type_ie == <<Enum("", 4, 8)>>

unpack_request_type_ie == <<Skip(1), Fld("", 3)>>

pack_traffic_flow_template_ie ==
  <<Framed(<<Fld("tft_op_code", 3), Opt(Some("parameter_list_size")),
      Cnt("packet_filter_list_size", 4, 0),
      Case(Isnt("tft_op_code", 5),
        <<Each("packet_filter_list_size", "packet_filter_list", TftFilter)>>,
        <<Each("packet_filter_list_size", "packet_filter_list", <<Fld("dir", 4), Fld("id", 4)>>)>>),
      Each("parameter_list_size", "parameter_list", TftParameter)>>, 0)>>

pack_traffic_flow_aggregate_description_ie == pack_traffic_flow_template_ie

unpack_traffic_flow_template_ie ==
  <<Counted(1,
      <<Skip(8), Fld("tft_op_code", 3), Fld("param_list_present", 1),
        Cnt("packet_filter_list_size", 4, 0),
        Case(Isnt("tft_op_code", 5),
          <<Each("packet_filter_list_size", "packet_filter_list", TftFilter)>>,
          <<Each("packet_filter_list_size", "packet_filter_list", <<Fld("dir", 4), Fld("id", 4)>>)>>),
        When(On("param_list_present"),
          <<Put("parameter_list_size", 0),
            While(1, <<More("parameter_list_size", "parameter_list", TftParameter)>>)>>)>>)>>

unpack_traffic_flow_aggregate_description_ie == unpack_traffic_flow_template_ie

pack_transaction_identifier_ie ==
  <<Case(Is("tio", 7), <<Fill(2, 8)>>, <<Fill(1, 8)>>), Fld("ti_flag", 1), Fld("tio", 3), Fill(0, 4),
    When(Is("tio", 7), <<Fill(1, 1), Fld("tie", 7)>>)>>

unpack_transaction_identifier_ie ==
  <<Counted(1, <<Skip(8), Fld("ti_flag", 1), Fld("tio", 3), Skip(4),
                 When(Is("tio", 7), <<Skip(1), Fld("tie", 7)>>)>>)>>

============================================================================
